---- MODULE Spec2Model ----
(***************************************************************************)
(* State-machine model of the climakitaegui panels: the thresholds panel   *)
(* and its event options (explore/thresholds.py), the average-             *)
(* meteorological-year panel (explore/amy.py), the location map and the    *)
(* scenario timeline of the selection panel (core/data_interface.py) and   *)
(* the warming-levels stamps (explore/warming.py).  One object is          *)
(* constructed per behaviour; `panel` records which one.                   *)
(***************************************************************************)
EXTENDS Integers, Sequences, FiniteSets, TLC

VARIABLES
    panel,                \* which panel object this behaviour constructed
    \* selection fields inherited from DataParameters
    area_subset, cached_area, variable, units, resolution, latitude, longitude,
    scenario_historical, scenario_ssp, time_slice,
    \* ThresholdParameters
    da, threshold_value, threshold_label, changed_loc_and_var, changed_units,
    view_result,
    \* AverageMetYearParameters
    amy_type, computation_method, tmy_computation_description, cmap, warmlevel,
    historical_tmy_data, future_tmy_data,
    \* _map_view
    data_type, extent, scatter_size, map_error, map_calls,
    \* DataParametersWithPanes.scenario_view
    approach, downscaling_method, scenario_fig,
    \* ThresholdParameters event options
    threshold_direction, duration1_length, duration1_type, period_length,
    period_type, group_length, group_type, duration2_length, duration2_type,
    smoothing, num_timesteps,
    param_set,            \* <<name, value>> of the last parameter assignment
    param_error,          \* exception that assignment raised
    duration2_row_seen,   \* <<group_length, group_type>> at each run of
                          \* duration2_row during that assignment
    \* WarmingLevelVisualize and _get_cmap
    warming_levels, gwl_snapshots, single_spatial, level_min, main_stamps,
    stats_stamps, default_colormap, vmin, cmap_name,
    \* the heatmap of a meteorological year (explore/amy.py)
    meteo_yr_len, yticks, heatmap_cmap,
    \* bookkeeping of the last operation
    op,                   \* name of the last operation performed
    calls,                \* external calls made by the last operation
    raised,               \* external call whose exception left the last operation
    loc_var_touched,      \* area_subset/cached_area/variable changed since the last load
    units_touched,        \* units changed since the dataset was last refreshed
    view_stale            \* the view last rendered showed another dataset
                          \* than the one the panel held when the
                          \* operation ended

selVars == <<area_subset, cached_area, variable, units, resolution, latitude,
             longitude, scenario_historical, scenario_ssp, time_slice>>
thrVars == <<da, threshold_value, threshold_label, changed_loc_and_var,
             changed_units, view_result>>
amyVars == <<amy_type, computation_method, tmy_computation_description, cmap,
             warmlevel, historical_tmy_data, future_tmy_data>>
mapVars == <<data_type, extent, scatter_size, map_error, map_calls>>
scnVars == <<approach, downscaling_method, scenario_fig>>
optVars == <<threshold_direction, duration1_length, duration1_type,
             period_length, period_type, group_length, group_type,
             duration2_length, duration2_type, smoothing, num_timesteps,
             param_set, param_error, duration2_row_seen>>
wlVars == <<warming_levels, gwl_snapshots, single_spatial, level_min,
            main_stamps, stats_stamps, default_colormap, vmin, cmap_name>>
hmVars == <<meteo_yr_len, yticks, heatmap_cmap>>
logVars == <<op, calls, raised, loc_var_touched, units_touched, view_stale>>
vars == <<panel, selVars, thrVars, amyVars, mapVars, scnVars, optVars, wlVars, hmVars, logVars>>

NA == "n/a"               \* value of a field the constructed panel does not use

\* the fields of scnVars in a panel that does not have them
ScnUnused == approach = NA /\ downscaling_method = NA /\ scenario_fig = NA

\* the fields of optVars in a panel that does not have them
OptUnused ==
    /\ threshold_direction = NA
    /\ duration1_length = NA /\ duration1_type = NA
    /\ period_length = NA /\ period_type = NA
    /\ group_length = NA /\ group_type = NA
    /\ duration2_length = NA /\ duration2_type = NA
    /\ smoothing = NA /\ num_timesteps = NA
    /\ param_set = NA /\ param_error = NA /\ duration2_row_seen = NA

\* the fields of wlVars in a panel that does not have them
WlUnused ==
    /\ warming_levels = NA /\ gwl_snapshots = NA /\ single_spatial = NA
    /\ level_min = NA /\ main_stamps = NA /\ stats_stamps = NA
    /\ default_colormap = NA /\ vmin = NA /\ cmap_name = NA

\* the fields of hmVars in a panel that does not have them
HmUnused == meteo_yr_len = NA /\ yticks = NA /\ heatmap_cmap = NA

(***************************************************************************)
(* Domains of the selection fields (DataParameters choices).               *)
(***************************************************************************)
PanelAreaSubsets == {"CA counties", "states"}

CachedAreaOptions ==
    [a \in PanelAreaSubsets |->
        IF a = "CA counties"
        THEN <<"Los Angeles County", "Alameda County">>
        ELSE <<"CA", "NV">>]

Variables == {"Air Temperature at 2m", "Maximum air temperature at 2m",
              "Precipitation (total)"}

UnitOptions ==
    [v \in Variables |->
        IF v = "Precipitation (total)" THEN {"mm", "inches"}
        ELSE {"K", "degC"}]

ThresholdChoices == {0}

NoCalls == [get_threshold_data |-> 0, convert_units |-> 0,
            retrieve_meteo_yr_data |-> 0]

(***************************************************************************)
(* External analytics library: retrieval, unit conversion, dataset mean.   *)
(* A dataset is identified by the selection it was retrieved with and the  *)
(* units it is expressed in.                                               *)
(***************************************************************************)
get_threshold_data(a, c, v, u) ==
    [area_subset |-> a, cached_area |-> c, variable |-> v, units |-> u]

convert_units(d, selected_units) == [d EXCEPT !.units = selected_units]

\* mean of the dataset in hundredths of its native unit
NativeMean100(d) ==
    LET place == IF d.cached_area = <<"Los Angeles County">> THEN 0
                 ELSE IF d.cached_area = <<"Alameda County">> THEN 1
                 ELSE IF d.cached_area = <<"CA">> THEN 2 ELSE 3
    IN  CASE d.variable = "Air Temperature at 2m" -> 29150 - 275 * place
          [] d.variable = "Maximum air temperature at 2m" -> 29850 - 275 * place
          [] d.variable = "Precipitation (total)" -> 250 + 425 * place

\* mean of the dataset in hundredths of the unit it is expressed in
Mean100(d) ==
    LET n == NativeMean100(d)
    IN  CASE d.units = "K" -> n
          [] d.units = "degC" -> n - 27315
          [] d.units = "mm" -> n
          [] d.units = "inches" -> (n * 10) \div 254

\* Python round(): to the nearest integer, ties to the even one
round(x100) ==
    LET q == x100 \div 100
        r == x100 % 100
    IN  IF r < 50 THEN q
        ELSE IF r > 50 THEN q + 1
        ELSE IF q % 2 = 0 THEN q ELSE q + 1

RoundedMean(d) == round(Mean100(d))

(***************************************************************************)
(* ThresholdParameters                                                     *)
(***************************************************************************)
\* the watchers on area_subset/cached_area/variable and on units
_updated_bool_loc_and_var(flag) == TRUE

\* variant: the units watcher leaves the flag as it was
_updated_units_noop(flag) == flag

_updated_units(flag) == TRUE

\* variant: a failed retrieval is attempted a second time
_update_data_retry(f, fails) ==
    IF f.changed_loc_and_var /\ fails
    THEN [f EXCEPT !.n_get = 2, !.raised = "get_threshold_data"]
    ELSE IF f.changed_loc_and_var
    THEN [f EXCEPT !.da = get_threshold_data(f.area_subset, f.cached_area,
                                             f.variable, f.units),
                   !.changed_loc_and_var = FALSE, !.changed_units = FALSE,
                   !.n_get = 1]
    ELSE f

\* variant: the units branch forgets to clear changed_units
_update_data_keep_units_flag(f, fails) ==
    LET f1 == IF f.changed_loc_and_var /\ ~fails
              THEN [f EXCEPT !.da = get_threshold_data(f.area_subset,
                                        f.cached_area, f.variable, f.units),
                             !.changed_loc_and_var = FALSE, !.n_get = 1]
              ELSE IF f.changed_loc_and_var
              THEN [f EXCEPT !.n_get = 1, !.raised = "get_threshold_data"]
              ELSE f
    IN  IF f1.raised = "none" /\ f1.changed_units
        THEN [f1 EXCEPT !.da = convert_units(f1.da, f1.units),
                        !.threshold_value =
                            RoundedMean(convert_units(f1.da, f1.units)),
                        !.threshold_label = f1.units,
                        !.n_conv = 1]
        ELSE f1

\* variant: the units branch is an elif of the retrieval branch
_update_data_elif(f, fails) ==
    IF f.changed_loc_and_var /\ ~fails
    THEN [f EXCEPT !.da = get_threshold_data(f.area_subset, f.cached_area,
                                             f.variable, f.units),
                   !.changed_loc_and_var = FALSE, !.changed_units = FALSE,
                   !.n_get = 1]
    ELSE IF f.changed_loc_and_var
    THEN [f EXCEPT !.n_get = 1, !.raised = "get_threshold_data"]
    ELSE IF f.changed_units
    THEN [f EXCEPT !.da = convert_units(f.da, f.units),
                   !.threshold_value = RoundedMean(convert_units(f.da, f.units)),
                   !.threshold_label = f.units,
                   !.changed_units = FALSE, !.n_conv = 1]
    ELSE f

\* variant: the flag is cleared before the retrieval is attempted
_update_data_clear_first(f, fails) ==
    LET f1 == IF f.changed_loc_and_var /\ ~fails
              THEN [f EXCEPT !.da = get_threshold_data(f.area_subset,
                                        f.cached_area, f.variable, f.units),
                             !.changed_loc_and_var = FALSE, !.n_get = 1]
              ELSE IF f.changed_loc_and_var
              THEN [f EXCEPT !.changed_loc_and_var = FALSE, !.n_get = 1,
                             !.raised = "get_threshold_data"]
              ELSE f
    IN  IF f1.raised = "none" /\ f1.changed_units
        THEN [f1 EXCEPT !.da = convert_units(f1.da, f1.units),
                        !.threshold_value =
                            RoundedMean(convert_units(f1.da, f1.units)),
                        !.threshold_label = f1.units,
                        !.changed_units = FALSE, !.n_conv = 1]
        ELSE f1

\* _update_data on the fields f of the panel; `fails` says whether the
\* external retrieval raises.  Returns the fields after the watcher ran.
_update_data(f, fails) ==
    LET load == f.changed_loc_and_var
        f1 == IF load /\ ~fails
              THEN [f EXCEPT !.da = get_threshold_data(f.area_subset,
                                        f.cached_area, f.variable, f.units),
                             !.changed_loc_and_var = FALSE,
                             !.n_get = 1]
              ELSE IF load
              THEN [f EXCEPT !.n_get = 1, !.raised = "get_threshold_data"]
              ELSE f
    IN  IF f1.raised = "none" /\ f1.changed_units
        THEN [f1 EXCEPT !.da = convert_units(f1.da, f1.units),
                        !.threshold_value =
                            RoundedMean(convert_units(f1.da, f1.units)),
                        !.threshold_label = f1.units,
                        !.changed_units = FALSE,
                        !.n_conv = 1]
        ELSE f1

\* ThresholdParameters.view; `stage` is the step of the rendering that
\* raises ("none" when nothing does)
ViewStages == {"none", "transform_data", "plot_exceedance_count",
               "exceedance_plot_title", "exceedance_plot_subtitle"}

view(stage) ==
    IF stage \in {"transform_data", "plot_exceedance_count"} THEN "error"
    ELSE IF stage = "none" THEN "column"
    ELSE "raised"

\* variant: the view also depends on the parameters it reads
view_depends_on_options ==
    {"reload_data", "threshold_value", "threshold_direction",
     "duration1_length", "period_type", "smoothing"}

\* the parameters ThresholdParameters.view is declared to depend on
view_depends == {"reload_plot", "reload_data"}

\* what the displayed view shows after `event`: rendered again when the
\* view depends on the event, left as it was otherwise
Rendered(event, stage) ==
    IF event \in view_depends THEN view(stage) ELSE view_result

ThrFields ==
    [area_subset |-> area_subset, cached_area |-> cached_area,
     variable |-> variable, units |-> units, da |-> da,
     threshold_value |-> threshold_value, threshold_label |-> threshold_label,
     changed_loc_and_var |-> changed_loc_and_var,
     changed_units |-> changed_units,
     n_get |-> 0, n_conv |-> 0, raised |-> "none"]

\* the declared defaults of the event options
OptDefaults ==
    /\ threshold_direction = "above"
    /\ duration1_length = 1 /\ duration1_type = "hour"
    /\ period_length = 1 /\ period_type = "year"
    /\ group_length = 1 /\ group_type = "hour"
    /\ duration2_length = 1 /\ duration2_type = "hour"
    /\ smoothing = "None"
    /\ num_timesteps = 10
    /\ param_set = <<>>
    /\ param_error = "none"
    /\ duration2_row_seen = <<>>

\* the fields of a ThresholdParameters object after __init__
ThrConstructed ==
    /\ OptDefaults
    /\ HmUnused
    /\ WlUnused
    /\ ScnUnused
    /\ area_subset = "CA counties"
    /\ cached_area = <<"Los Angeles County">>
    /\ variable = "Air Temperature at 2m"
    /\ units = "K"
    /\ resolution = "45 km"
    /\ scenario_historical = <<>>
    /\ scenario_ssp = <<"SSP 3-7.0">>
    /\ time_slice = <<2020, 2100>>
    /\ da = get_threshold_data("CA counties", <<"Los Angeles County">>,
                               "Air Temperature at 2m", "K")
    /\ threshold_value = RoundedMean(da)
    /\ threshold_label = "K"
    /\ changed_loc_and_var = TRUE
    /\ changed_units = FALSE
    /\ view_result = "none"
    /\ amy_type = NA /\ computation_method = NA
    /\ tmy_computation_description = NA /\ cmap = NA /\ warmlevel = NA
    /\ historical_tmy_data = NA /\ future_tmy_data = NA
    /\ data_type = "Gridded"
    /\ extent = NA /\ scatter_size = NA /\ map_error = NA /\ map_calls = NA
    /\ op = "init"
    /\ calls = [NoCalls EXCEPT !.get_threshold_data = 1]
    /\ raised = "none"
    /\ loc_var_touched = FALSE
    /\ units_touched = FALSE
    /\ view_stale = FALSE

\* the panels that show a ThresholdParameters object: its data options alone,
\* and the whole thresholds_visualize panel
ThresholdPanels == {"thresholds", "visualize"}

ThrInit ==
    /\ panel = "thresholds"
    /\ ThrConstructed
    /\ latitude = NA /\ longitude = NA

\* the fields of the panel after _update_data, written back
ThrStore(g) ==
    /\ da' = g.da
    /\ threshold_value' = g.threshold_value
    /\ threshold_label' = g.threshold_label
    /\ changed_loc_and_var' = g.changed_loc_and_var
    /\ changed_units' = g.changed_units
    /\ calls' = [NoCalls EXCEPT !.get_threshold_data = g.n_get,
                                !.convert_units = g.n_conv]
    /\ raised' = g.raised

\* user picks another area_subset; DataParameters resets cached_area to the
\* first option of the new kind
ThrSetAreaSubset(a) ==
    /\ panel = "thresholds"
    /\ a # area_subset
    /\ area_subset' = a
    /\ cached_area' = <<CachedAreaOptions[a][1]>>
    /\ changed_loc_and_var' = _updated_bool_loc_and_var(changed_loc_and_var)
    /\ loc_var_touched' = TRUE
    /\ op' = "set_area_subset"
    /\ calls' = NoCalls /\ raised' = "none"
    /\ UNCHANGED <<panel, hmVars, view_stale, wlVars, optVars, scnVars, variable, units, resolution, latitude, longitude,
                   scenario_historical, scenario_ssp, time_slice,
                   da, threshold_value, threshold_label, changed_units,
                   view_result, amyVars, mapVars, units_touched>>

ThrSetCachedArea(c) ==
    /\ panel = "thresholds"
    /\ c # cached_area
    /\ cached_area' = c
    /\ changed_loc_and_var' = _updated_bool_loc_and_var(changed_loc_and_var)
    /\ loc_var_touched' = TRUE
    /\ op' = "set_cached_area"
    /\ calls' = NoCalls /\ raised' = "none"
    /\ UNCHANGED <<panel, hmVars, view_stale, wlVars, optVars, scnVars, area_subset, variable, units, resolution, latitude,
                   longitude, scenario_historical, scenario_ssp, time_slice,
                   da, threshold_value, threshold_label, changed_units,
                   view_result, amyVars, mapVars, units_touched>>

\* user picks another variable; DataParameters moves units to one of the
\* units of the new variable (u), which runs the units watcher if it differs
ThrSetVariable(v, u) ==
    /\ panel = "thresholds"
    /\ v # variable
    /\ u \in UnitOptions[v]
    /\ units \in UnitOptions[v] => u = units
    /\ variable' = v
    /\ units' = u
    /\ changed_loc_and_var' = _updated_bool_loc_and_var(changed_loc_and_var)
    /\ changed_units' = IF u # units THEN _updated_units(changed_units)
                                     ELSE changed_units
    /\ loc_var_touched' = TRUE
    /\ units_touched' = (units_touched \/ u # units)
    /\ op' = "set_variable"
    /\ calls' = NoCalls /\ raised' = "none"
    /\ UNCHANGED <<panel, hmVars, view_stale, wlVars, optVars, scnVars, area_subset, cached_area, resolution, latitude,
                   longitude, scenario_historical, scenario_ssp, time_slice,
                   da, threshold_value, threshold_label,
                   view_result, amyVars, mapVars>>

ThrSetUnits(u) ==
    /\ panel = "thresholds"
    /\ u \in UnitOptions[variable]
    /\ u # units
    /\ units' = u
    /\ changed_units' = _updated_units(changed_units)
    /\ units_touched' = TRUE
    /\ op' = "set_units"
    /\ calls' = NoCalls /\ raised' = "none"
    /\ UNCHANGED <<panel, hmVars, view_stale, wlVars, optVars, scnVars, area_subset, cached_area, variable, resolution,
                   latitude, longitude, scenario_historical, scenario_ssp,
                   time_slice, da, threshold_value, threshold_label,
                   changed_loc_and_var, view_result, amyVars, mapVars,
                   loc_var_touched>>

ThrSetThresholdValue(t) ==
    /\ panel \in ThresholdPanels
    /\ t # threshold_value
    /\ threshold_value' = t
    /\ view_result' = Rendered("threshold_value", "none")
    /\ op' = "set_threshold_value"
    /\ calls' = NoCalls /\ raised' = "none"
    /\ UNCHANGED <<panel, hmVars, view_stale, wlVars, optVars, scnVars, selVars, da, threshold_label, changed_loc_and_var,
                   changed_units, amyVars, mapVars,
                   loc_var_touched, units_touched>>

\* variant: the watcher of a displayed method is called before the watchers
\* of the methods declared with watch=True
watcher_precedence_view_first(watch) == IF watch THEN 1 ELSE 0

\* the precedence of the watcher of a method that depends on a parameter:
\* -1 for a method declared with watch=True, installed at construction; 0
\* for the watcher installed when a method declared with watch=False is
\* displayed.  Watchers of one event are called by ascending precedence.
watcher_precedence(watch) == IF watch THEN -1 ELSE 0

\* the data watcher (watch=True) of reload_data is called before the watcher
\* of the view (watch=False); with equal precedence the one installed first
DataWatcherFirst == watcher_precedence(TRUE) <= watcher_precedence(FALSE)

\* the Reload Data button: _update_data and the view that depends on
\* reload_data, in the order of their watchers; an exception of _update_data
\* ends the event
ThrReloadData(fails, stage) ==
    /\ panel \in ThresholdPanels
    /\ fails => (changed_loc_and_var /\ stage = "none")
    /\ LET g == _update_data(ThrFields, fails)
       IN  /\ ThrStore(g)
           /\ view_result' = IF g.raised = "none" \/ ~DataWatcherFirst
                              THEN view(stage) ELSE view_result
           /\ view_stale' = IF DataWatcherFirst
                             THEN (g.raised # "none" /\ view_stale)
                             ELSE da # g.da
           /\ loc_var_touched' = IF g.raised = "none" /\ g.n_get = 1
                                   THEN FALSE ELSE loc_var_touched
           /\ units_touched' = IF g.raised = "none" THEN FALSE
                                                    ELSE units_touched
    /\ op' = "reload_data"
    /\ UNCHANGED <<panel, hmVars, wlVars, optVars, scnVars, selVars, amyVars, mapVars>>

\* the Reload Plot button: only the view is rendered again
ThrReloadPlot(stage) ==
    /\ panel \in ThresholdPanels
    /\ view_result' = Rendered("reload_plot", stage)
    /\ view_stale' = FALSE
    /\ op' = "reload_plot"
    /\ calls' = NoCalls /\ raised' = "none"
    /\ UNCHANGED <<panel, hmVars, wlVars, optVars, scnVars, selVars, da, threshold_value, threshold_label,
                   changed_loc_and_var, changed_units, amyVars, mapVars,
                   loc_var_touched, units_touched>>

ThrNext ==
    /\ panel = "thresholds"
    /\ \/ \E a \in PanelAreaSubsets : ThrSetAreaSubset(a)
       \/ \E i \in 1..2 : ThrSetCachedArea(<<CachedAreaOptions[area_subset][i]>>)
       \/ \E v \in Variables : \E u \in UnitOptions[v] : ThrSetVariable(v, u)
       \/ \E u \in UnitOptions[variable] : ThrSetUnits(u)
       \/ \E t \in ThresholdChoices : ThrSetThresholdValue(t)
       \/ \E fails \in BOOLEAN : \E stage \in ViewStages :
               ThrReloadData(fails, stage)
       \/ \E stage \in ViewStages : ThrReloadPlot(stage)

(***************************************************************************)
(* AverageMetYearParameters                                                *)
(***************************************************************************)
AmyTypes == {"Absolute", "Difference"}

\* variables offered when the panel is explored
AmyVariables == {"Air Temperature at 2m", "Precipitation (total)"}

tmy_advanced_options_dict ==
    [t \in AmyTypes |->
        IF t = "Absolute"
        THEN [default |-> "Historical",
              objects |-> {"Historical", "Warming Level Future"}]
        ELSE [default |-> "Warming Level Future",
              objects |-> {"Warming Level Future", "Severe AMY"}]]

\* the description texts, named by the (amy_type, computation_method) pair
\* they belong to; "KeyError" where the dictionary has no entry
computatation_description_dict(t, m) ==
    IF m \in tmy_advanced_options_dict[t].objects THEN <<t, m>> ELSE "KeyError"

WarmLevels == {"1.5", "2", "3"}

warming_year_average_range ==
    [w \in WarmLevels |->
        IF w = "1.5" THEN <<2034, 2063>>
        ELSE IF w = "2" THEN <<2047, 2076>> ELSE <<2061, 2090>>]

\* colormap column of the variable-description table, hourly timescale
VariableColormap ==
    [v \in Variables |->
        IF v = "Precipitation (total)" THEN "ae_blue" ELSE "ae_orange"]

retrieve_meteo_yr_data(a, c, v, year_start, year_end) ==
    [area_subset |-> a, cached_area |-> c, variable |-> v,
     year_start |-> year_start, year_end |-> year_end]

\* variant: the colormap follows the variable whatever the amy_type
_update_cmap_by_variable(v, t) == VariableColormap[v]

_update_cmap(v, t) == IF t = "Difference" THEN "ae_diverging" ELSE VariableColormap[v]

\* variant: the "Warming Level Future" branch leaves scenario_historical
\* as it was
_update_data_to_be_returned_keep_hist(m, w, cur) ==
    IF m = "Historical"
    THEN [scenario_historical |-> <<"Historical Climate">>,
          scenario_ssp |-> <<>>,
          time_slice |-> <<1981, 2010>>]
    ELSE IF m = "Warming Level Future"
    THEN [scenario_historical |-> cur.scenario_historical,
          scenario_ssp |-> <<"SSP 3-7.0 -- Business as Usual">>,
          time_slice |-> warming_year_average_range[w]]
    ELSE cur

\* _update_data_to_be_returned: the scenario fields and time slice for the
\* computation method m and warming level w, given the current ones
_update_data_to_be_returned(m, w, cur) ==
    IF m = "Historical"
    THEN [scenario_historical |-> <<"Historical Climate">>,
          scenario_ssp |-> <<>>,
          time_slice |-> <<1981, 2010>>]
    ELSE IF m = "Warming Level Future"
    THEN [scenario_historical |-> <<>>,
          scenario_ssp |-> <<"SSP 3-7.0 -- Business as Usual">>,
          time_slice |-> warming_year_average_range[w]]
    ELSE cur

CurScenario ==
    [scenario_historical |-> scenario_historical,
     scenario_ssp |-> scenario_ssp, time_slice |-> time_slice]

StoreScenario(r) ==
    /\ scenario_historical' = r.scenario_historical
    /\ scenario_ssp' = r.scenario_ssp
    /\ time_slice' = r.time_slice

\* _update_tmy_data; failAt is the retrieval call that raises (0: none).
\* Returns the two datasets and the number of retrieval calls made.
_update_tmy_data(hist, fut, a, c, v, w, failAt) ==
    LET newHist == retrieve_meteo_yr_data(a, c, v, 1981, 2010)
        newFut == retrieve_meteo_yr_data(a, c, v,
                      warming_year_average_range[w][1],
                      warming_year_average_range[w][2])
    IN  IF failAt = 1
        THEN [historical_tmy_data |-> hist, future_tmy_data |-> fut,
              n_retrieve |-> 1, raised |-> "retrieve_meteo_yr_data"]
        ELSE IF failAt = 2
        THEN [historical_tmy_data |-> newHist, future_tmy_data |-> fut,
              n_retrieve |-> 2, raised |-> "retrieve_meteo_yr_data"]
        ELSE [historical_tmy_data |-> newHist, future_tmy_data |-> newFut,
              n_retrieve |-> 2, raised |-> "none"]

\* variant: the method is reset to the default of "Absolute" for both types
_update_computation_method_absolute(t) ==
    tmy_advanced_options_dict["Absolute"].default

_update_computation_method(t) == tmy_advanced_options_dict[t].default

AmyInit ==
    /\ panel = "amy"
    /\ HmUnused
    /\ WlUnused
    /\ OptUnused
    /\ ScnUnused
    /\ area_subset = "CA counties"
    /\ cached_area = <<"Los Angeles County">>
    /\ variable = "Air Temperature at 2m"
    /\ units = "K"
    /\ resolution = "45 km"
    /\ latitude = NA /\ longitude = NA
    /\ scenario_historical = <<"Historical Climate">>
    /\ scenario_ssp = <<>>
    /\ time_slice = <<1981, 2010>>
    /\ da = NA /\ threshold_value = NA /\ threshold_label = NA
    /\ changed_loc_and_var = NA /\ changed_units = NA /\ view_result = NA
    /\ amy_type = "Absolute"
    /\ computation_method = tmy_advanced_options_dict["Absolute"].default
    /\ tmy_computation_description =
           computatation_description_dict("Absolute", computation_method)
    /\ cmap = "ae_orange"
    /\ warmlevel = "1.5"
    /\ historical_tmy_data =
           retrieve_meteo_yr_data("CA counties", <<"Los Angeles County">>,
                                  "Air Temperature at 2m", 1981, 2010)
    /\ future_tmy_data =
           retrieve_meteo_yr_data("CA counties", <<"Los Angeles County">>,
                                  "Air Temperature at 2m",
                                  warming_year_average_range["1.5"][1],
                                  warming_year_average_range["1.5"][2])
    /\ data_type = "Gridded"
    /\ extent = NA /\ scatter_size = NA /\ map_error = NA /\ map_calls = NA
    /\ op = "init"
    /\ calls = [NoCalls EXCEPT !.retrieve_meteo_yr_data = 2]
    /\ raised = "none"
    /\ loc_var_touched = FALSE
    /\ units_touched = FALSE
    /\ view_stale = FALSE

AmyQuiet == calls' = NoCalls /\ raised' = "none"

AmySetAreaSubset(a) ==
    /\ panel = "amy"
    /\ a # area_subset
    /\ area_subset' = a
    /\ cached_area' = <<CachedAreaOptions[a][1]>>
    /\ loc_var_touched' = TRUE
    /\ op' = "set_area_subset"
    /\ AmyQuiet
    /\ UNCHANGED <<panel, hmVars, view_stale, wlVars, optVars, scnVars, variable, units, resolution, latitude, longitude,
                   scenario_historical, scenario_ssp, time_slice,
                   thrVars, amyVars, mapVars, units_touched>>

AmySetCachedArea(c) ==
    /\ panel = "amy"
    /\ c # cached_area
    /\ cached_area' = c
    /\ loc_var_touched' = TRUE
    /\ op' = "set_cached_area"
    /\ AmyQuiet
    /\ UNCHANGED <<panel, hmVars, view_stale, wlVars, optVars, scnVars, area_subset, variable, units, resolution, latitude,
                   longitude, scenario_historical, scenario_ssp, time_slice,
                   thrVars, amyVars, mapVars, units_touched>>

AmySetVariable(v) ==
    /\ panel = "amy"
    /\ v # variable
    /\ variable' = v
    /\ cmap' = _update_cmap(v, amy_type)
    /\ loc_var_touched' = TRUE
    /\ op' = "set_variable"
    /\ AmyQuiet
    /\ UNCHANGED <<panel, hmVars, view_stale, wlVars, optVars, scnVars, area_subset, cached_area, units, resolution,
                   latitude, longitude, scenario_historical, scenario_ssp,
                   time_slice, thrVars, amy_type, computation_method,
                   tmy_computation_description, warmlevel,
                   historical_tmy_data, future_tmy_data, mapVars,
                   units_touched>>

\* amy_type watchers in definition order: _update_cmap,
\* _update_computation_method (whose assignment runs the computation_method
\* watchers when the value changes), _update_tmy_computatation_description
AmySetAmyType(t) ==
    /\ panel = "amy"
    /\ t # amy_type
    /\ amy_type' = t
    /\ cmap' = _update_cmap(variable, t)
    /\ computation_method' = _update_computation_method(t)
    /\ StoreScenario(IF computation_method' # computation_method
                     THEN _update_data_to_be_returned(computation_method',
                                                      warmlevel, CurScenario)
                     ELSE CurScenario)
    /\ tmy_computation_description' =
           computatation_description_dict(t, computation_method')
    /\ op' = "set_amy_type"
    /\ AmyQuiet
    /\ UNCHANGED <<panel, hmVars, view_stale, wlVars, optVars, scnVars, area_subset, cached_area, variable, units,
                   resolution, latitude, longitude, thrVars, warmlevel,
                   historical_tmy_data, future_tmy_data, mapVars,
                   loc_var_touched, units_touched>>

AmySetComputationMethod(m) ==
    /\ panel = "amy"
    /\ m \in tmy_advanced_options_dict[amy_type].objects
    /\ m # computation_method
    /\ computation_method' = m
    /\ StoreScenario(_update_data_to_be_returned(m, warmlevel, CurScenario))
    /\ tmy_computation_description' =
           computatation_description_dict(amy_type, m)
    /\ op' = "set_computation_method"
    /\ AmyQuiet
    /\ UNCHANGED <<panel, hmVars, view_stale, wlVars, optVars, scnVars, area_subset, cached_area, variable, units,
                   resolution, latitude, longitude, thrVars, amy_type, cmap,
                   warmlevel, historical_tmy_data, future_tmy_data, mapVars,
                   loc_var_touched, units_touched>>

AmySetWarmlevel(w) ==
    /\ panel = "amy"
    /\ w # warmlevel
    /\ warmlevel' = w
    /\ StoreScenario(_update_data_to_be_returned(computation_method, w,
                                                 CurScenario))
    /\ op' = "set_warmlevel"
    /\ AmyQuiet
    /\ UNCHANGED <<panel, hmVars, view_stale, wlVars, optVars, scnVars, area_subset, cached_area, variable, units,
                   resolution, latitude, longitude, thrVars, amy_type,
                   computation_method, tmy_computation_description, cmap,
                   historical_tmy_data, future_tmy_data, mapVars,
                   loc_var_touched, units_touched>>

\* the Reload Data button: _update_data_to_be_returned, then
\* _update_tmy_data, and _tmy_hourly_heatmap in the order of the watchers
AmyReloadData(failAt) ==
    /\ panel = "amy"
    /\ StoreScenario(_update_data_to_be_returned(computation_method,
                                                 warmlevel, CurScenario))
    /\ LET g == _update_tmy_data(historical_tmy_data, future_tmy_data,
                                 area_subset, cached_area, variable,
                                 warmlevel, failAt)
       IN  /\ historical_tmy_data' = g.historical_tmy_data
           /\ future_tmy_data' = g.future_tmy_data
           /\ calls' = [NoCalls EXCEPT !.retrieve_meteo_yr_data = g.n_retrieve]
           /\ raised' = g.raised
           /\ loc_var_touched' = IF g.raised = "none" THEN FALSE
                                                      ELSE loc_var_touched
           /\ view_stale' =
                  IF DataWatcherFirst
                  THEN (g.raised # "none" /\ view_stale)
                  ELSE <<historical_tmy_data, future_tmy_data>>
                          # <<g.historical_tmy_data, g.future_tmy_data>>
    /\ op' = "reload_data"
    /\ UNCHANGED <<panel, hmVars, wlVars, optVars, scnVars, area_subset, cached_area, variable, units,
                   resolution, latitude, longitude, thrVars, amy_type,
                   computation_method, tmy_computation_description, cmap,
                   warmlevel, mapVars, units_touched>>

AmyNext ==
    /\ panel = "amy"
    /\ \/ \E a \in PanelAreaSubsets : AmySetAreaSubset(a)
       \/ \E i \in 1..2 : AmySetCachedArea(<<CachedAreaOptions[area_subset][i]>>)
       \/ \E v \in AmyVariables : AmySetVariable(v)
       \/ \E t \in AmyTypes : AmySetAmyType(t)
       \/ \E m \in {"Historical", "Warming Level Future", "Severe AMY"} :
               AmySetComputationMethod(m)
       \/ \E w \in WarmLevels : AmySetWarmlevel(w)
       \/ \E failAt \in 0..2 : AmyReloadData(failAt)

(***************************************************************************)
(* _map_view (core/data_interface.py)                                      *)
(***************************************************************************)
\* extents are <<lon_min, lon_max, lat_min, lat_max>>
ca_extent == <<-125, -114, 31, 43>>
us_extent == <<-130, -100, 25, 50>>
na_extent == <<-150, -88, 8, 66>>

\* kinds of area subset; the last one stands for a kind whose name does not
\* contain "CA"
AreaSubsets == {"none", "lat/lon", "states", "CA counties", "CA watersheds",
                "watersheds"}

Resolutions == {"45 km", "9 km", "3 km", "1 km"}

DataTypes == {"Gridded", "Stations", "Station"}

\* the characters of the area-subset, scenario and colormap names
Chars(name) ==
    CASE name = "none" -> <<"n", "o", "n", "e">>
      [] name = "ae_orange" -> <<"a", "e", "_", "o", "r", "a", "n", "g", "e">>
      [] name = "ae_blue" -> <<"a", "e", "_", "b", "l", "u", "e">>
      [] name = "ae_diverging" ->
            <<"a", "e", "_", "d", "i", "v", "e", "r", "g", "i", "n", "g">>
      [] name = "ae_diverging_r" ->
            <<"a", "e", "_", "d", "i", "v", "e", "r", "g", "i", "n", "g", "_",
              "r">>
      [] name = "SSP 2-4.5" -> <<"S", "S", "P", " ", "2", "-", "4", ".", "5">>
      [] name = "SSP 3-7.0" -> <<"S", "S", "P", " ", "3", "-", "7", ".", "0">>
      [] name = "SSP 5-8.5" -> <<"S", "S", "P", " ", "5", "-", "8", ".", "5">>
      [] name = "Historical Climate" ->
            <<"H", "i", "s", "t", "o", "r", "i", "c", "a", "l", " ",
              "C", "l", "i", "m", "a", "t", "e">>
      [] name = "Historical Reconstruction" ->
            <<"H", "i", "s", "t", "o", "r", "i", "c", "a", "l", " ",
              "R", "e", "c", "o", "n", "s", "t", "r", "u", "c", "t", "i", "o",
              "n">>
      [] name = "lat/lon" -> <<"l", "a", "t", "/", "l", "o", "n">>
      [] name = "states" -> <<"s", "t", "a", "t", "e", "s">>
      [] name = "CA counties" ->
            <<"C", "A", " ", "c", "o", "u", "n", "t", "i", "e", "s">>
      [] name = "CA watersheds" ->
            <<"C", "A", " ", "w", "a", "t", "e", "r", "s", "h", "e", "d", "s">>
      [] name = "watersheds" ->
            <<"w", "a", "t", "e", "r", "s", "h", "e", "d", "s">>

\* Python `sub in text` on character sequences
StrIn(sub, text) ==
    \E i \in 1..(Len(text) - Len(sub) + 1) :
        SubSeq(text, i, i + Len(sub) - 1) = sub

\* grid of longitudes and latitudes the bounds are drawn from: the edges of
\* the three extents that the latitude/longitude ranges can reach, and values
\* beyond the North America extent
LonGrid == {-156, -150, -130, -125, -114, -100, -88, -85}
LatGrid == {10, 25, 31, 43, 50, 66, 67}

\* _get_subarea for "lat/lon": the box of the selected bounds
SubareaBox(lat, lon) == <<lon[1], lon[2], lat[1], lat[2]>>

\* geom_extent.contains(geometry) for a box geometry
contains(extent_i, geom) ==
    /\ extent_i[1] <= geom[1] /\ geom[2] <= extent_i[2]
    /\ extent_i[3] <= geom[3] /\ geom[4] <= extent_i[4]

\* variant: the loop runs on after a hit, so the last hit wins
RECURSIVE ExtentLoopNoBreak(_, _, _, _)
ExtentLoopNoBreak(candidates, i, geom, default) ==
    IF i > Len(candidates) THEN default
    ELSE IF contains(candidates[i], geom)
    THEN ExtentLoopNoBreak(candidates, i + 1, geom, candidates[i])
    ELSE ExtentLoopNoBreak(candidates, i + 1, geom, default)

\* the for loop over the candidate extents, leaving at the first hit
RECURSIVE ExtentLoop(_, _, _, _)
ExtentLoop(candidates, i, geom, default) ==
    IF i > Len(candidates) THEN default
    ELSE IF contains(candidates[i], geom) THEN candidates[i]
    ELSE ExtentLoop(candidates, i + 1, geom, default)

\* variant: the 9 km / states branch is tested before the 3 km / CA branch
ChooseExtentSwapped(area, res, geom) ==
    IF area = "lat/lon"
    THEN ExtentLoop(<<ca_extent, us_extent, na_extent>>, 1, geom, na_extent)
    ELSE IF res = "9 km" \/ area = "states" THEN us_extent
    ELSE IF res = "3 km" \/ StrIn(<<"C", "A">>, Chars(area)) THEN ca_extent
    ELSE IF area = "none" THEN na_extent
    ELSE ca_extent

ChooseExtent(area, res, geom) ==
    IF area = "lat/lon"
    THEN ExtentLoop(<<ca_extent, us_extent, na_extent>>, 1, geom, na_extent)
    ELSE IF res = "3 km" \/ StrIn(<<"C", "A">>, Chars(area)) THEN ca_extent
    ELSE IF res = "9 km" \/ area = "states" THEN us_extent
    ELSE IF area = "none" THEN na_extent
    ELSE ca_extent

\* marker size in tenths; 0 stands for the ValueError branch
ScatterSize(e) ==
    IF e = ca_extent THEN 45
    ELSE IF e = us_extent THEN 25
    ELSE IF e = na_extent THEN 15
    ELSE 0

\* variant: the annotation is written in the colour of the boundary
_add_res_to_ax_coloured(poly, rotation, xy, label, color) ==
    [args |-> [poly |-> poly, rotation |-> rotation, xy |-> xy,
               label |-> label, color |-> color],
     add_geometries |-> <<[geoms |-> <<poly>>, edgecolor |-> color,
                           facecolor |-> "white"]>>,
     annotate |-> <<[text |-> label, xy |-> xy, rotation |-> rotation,
                     color |-> color]>>]

\* _add_res_to_ax: the arguments it was called with, and the calls it makes
\* on the axis
_add_res_to_ax(poly, rotation, xy, label, color) ==
    [args |-> [poly |-> poly, rotation |-> rotation, xy |-> xy,
               label |-> label, color |-> color],
     add_geometries |-> <<[geoms |-> <<poly>>, edgecolor |-> color,
                           facecolor |-> "white"]>>,
     annotate |-> <<[text |-> label, xy |-> xy, rotation |-> rotation,
                     color |-> "black"]>>]

\* the model-grid polygons of _wrf_bb, named by their key
_wrf_bb(key) == [wrf_bb |-> key]

\* variant: the "9 km" case draws the 3 km polygon
DrawResolutionWrongPoly(res) ==
    CASE res = "45 km" ->
            <<_add_res_to_ax(_wrf_bb("45 km"), 28, <<-1540, 338>>, "45 km",
                             "green")>>
      [] res = "9 km" ->
            <<_add_res_to_ax(_wrf_bb("3 km"), 32, <<-1340, 420>>, "9 km",
                             "red")>>
      [] res = "3 km" ->
            <<_add_res_to_ax(_wrf_bb("3 km"), 32, <<-1270, 400>>, "3 km",
                             "darkorange")>>
      [] OTHER -> "ValueError"

\* the match on selections.resolution: the _add_res_to_ax calls made, or
\* "ValueError"; label positions are in tenths of a degree
DrawResolution(res) ==
    CASE res = "45 km" ->
            <<_add_res_to_ax(_wrf_bb("45 km"), 28, <<-1540, 338>>, "45 km",
                             "green")>>
      [] res = "9 km" ->
            <<_add_res_to_ax(_wrf_bb("9 km"), 32, <<-1340, 420>>, "9 km",
                             "red")>>
      [] res = "3 km" ->
            <<_add_res_to_ax(_wrf_bb("3 km"), 32, <<-1270, 400>>, "3 km",
                             "darkorange")>>
      [] OTHER -> "ValueError"

\* variant: every data type but the gridded one gets the station overlay
StationScatterNotGridded(dtype) == IF dtype # "Gridded" THEN 1 ELSE 0

\* number of ax.scatter calls of the station overlay
StationScatter(dtype) == IF dtype = "Station" THEN 1 ELSE 0

\* the whole of _map_view: what it drew and how it ended
_map_view(area, res, lat, lon, dtype) ==
    LET e == ChooseExtent(area, res, SubareaBox(lat, lon))
        size == ScatterSize(e)
        drawn0 == [set_extent |-> 1, add_res_to_ax |-> <<>>, scatter |-> 0]
    IN  IF size = 0
        THEN [extent |-> e, scatter_size |-> NA,
              error |-> "extent not set correctly", calls |-> drawn0]
        ELSE IF DrawResolution(res) = "ValueError"
        THEN [extent |-> e, scatter_size |-> size,
              error |-> "resolution needs to be 45 km, 9 km, 3 km",
              calls |-> drawn0]
        ELSE [extent |-> e, scatter_size |-> size, error |-> "none",
              calls |-> [drawn0 EXCEPT
                            !.add_res_to_ax = DrawResolution(res),
                            !.scatter = StationScatter(dtype)]]

MapInit ==
    /\ panel = "select"
    /\ HmUnused
    /\ WlUnused
    /\ OptUnused
    /\ ScnUnused
    /\ area_subset \in AreaSubsets
    /\ resolution \in Resolutions
    /\ latitude \in {p \in LatGrid \X LatGrid : p[1] < p[2]}
    /\ longitude \in {p \in LonGrid \X LonGrid : p[1] < p[2]}
    /\ data_type \in DataTypes
    /\ cached_area = <<>>
    /\ variable = "Air Temperature at 2m"
    /\ units = "K"
    /\ scenario_historical = <<>>
    /\ scenario_ssp = <<>>
    /\ time_slice = <<1980, 2015>>
    /\ da = NA /\ threshold_value = NA /\ threshold_label = NA
    /\ changed_loc_and_var = NA /\ changed_units = NA /\ view_result = NA
    /\ amy_type = NA /\ computation_method = NA
    /\ tmy_computation_description = NA /\ cmap = NA /\ warmlevel = NA
    /\ historical_tmy_data = NA /\ future_tmy_data = NA
    /\ extent = NA /\ scatter_size = NA /\ map_error = NA /\ map_calls = NA
    /\ op = "init"
    /\ calls = NoCalls
    /\ raised = "none"
    /\ loc_var_touched = FALSE
    /\ units_touched = FALSE
    /\ view_stale = FALSE

\* DataParametersWithPanes.map_view
MapView ==
    /\ panel = "select"
    /\ LET r == _map_view(area_subset, resolution, latitude, longitude,
                          data_type)
       IN  /\ extent' = r.extent
           /\ scatter_size' = r.scatter_size
           /\ map_error' = r.error
           /\ map_calls' = r.calls
    /\ op' = "map_view"
    /\ UNCHANGED <<panel, hmVars, view_stale, wlVars, optVars, scnVars, selVars, thrVars, amyVars, data_type, calls, raised,
                   loc_var_touched, units_touched>>

MapNext == MapView

(***************************************************************************)
(* The timeline of the selection panel (core/data_interface.py).           *)
(***************************************************************************)
ScenarioHistoricalChoices ==
    {<<>>, <<"Historical Climate">>, <<"Historical Reconstruction">>,
     <<"Historical Climate", "Historical Reconstruction">>, <<"n/a">>}

ScenarioSspChoices ==
    {<<>>, <<"SSP 3-7.0">>, <<"SSP 2-4.5", "SSP 5-8.5">>,
     <<"SSP 2-4.5", "SSP 3-7.0", "SSP 5-8.5">>, <<"n/a">>}

Approaches == {"Time", "Warming Level"}
DownscalingMethods == {"Dynamical", "Statistical", "Dynamical+Statistical"}
TimeSlices == {<<1980, 2015>>, <<2015, 2100>>, <<2030, 2060>>}

\* the match on downscaling_method: the attribute holding the range of the
\* historical data, or "ValueError"
historical_climate_range(dm) ==
    CASE dm = "Dynamical" -> "historical_climate_range_wrf"
      [] dm = "Statistical" -> "historical_climate_range_loca"
      [] dm = "Dynamical+Statistical" -> "historical_climate_range_wrf_and_loca"
      [] OTHER -> "ValueError"

SeqContains(seq, x) == \E i \in 1..Len(seq) : seq[i] = x

\* the figure before anything is drawn on it
EmptyFigure ==
    [timeline |-> FALSE, set_xlim |-> <<>>, errorbar |-> <<>>,
     fill_betweenx |-> <<>>, error |-> "none"]

\* one pass of the loop over scenario_ssp + scenario_historical: the errorbar
\* calls it makes for scen, <<>> when it skips scen, "UnboundLocalError" when
\* no branch gives the bar a centre or a colour
ScenarioBars(scen, hist, ssp, range) ==
    LET histBar == [x |-> "historical_central_year",
                    xerr |-> "historical_x_width", range |-> range,
                    color |-> "c"]
    IN  IF Len(ssp) > 0
           /\ scen \in {"Historical Climate", "Historical Reconstruction"}
        THEN <<>>
        ELSE IF scen = "Historical Reconstruction"
        THEN IF SeqContains(hist, "Historical Climate")
             THEN <<[histBar EXCEPT !.color = "darkblue"]>>
             ELSE <<[x |-> "1986", xerr |-> "36", range |-> "1950-2022",
                     color |-> "darkblue"]>>
        ELSE IF scen = "Historical Climate"
        THEN <<histBar>>
        ELSE IF StrIn(<<"S", "S", "P">>, Chars(scen))
        THEN LET color ==
                     IF StrIn(<<"2", "-", "4", ".", "5">>, Chars(scen))
                     THEN "#f69320"
                     ELSE IF StrIn(<<"3", "-", "7", ".", "0">>, Chars(scen))
                     THEN "#df0000"
                     ELSE IF StrIn(<<"5", "-", "8", ".", "5">>, Chars(scen))
                     THEN "#980002"
                     ELSE "unbound"
                 sspBar == [x |-> "2057.5", xerr |-> "42.5",
                            range |-> "2015-2100", color |-> color]
             IN  IF color = "unbound" THEN "UnboundLocalError"
                 ELSE IF SeqContains(hist, "Historical Climate")
                 THEN <<histBar, sspBar>>
                 ELSE <<sspBar>>
        ELSE "UnboundLocalError"

RECURSIVE ScenarioLoop(_, _, _, _, _, _)
\* the loop from the i-th entry of scens on, bars being the errorbar calls
\* made so far
ScenarioLoop(scens, i, hist, ssp, range, bars) ==
    IF i > Len(scens) THEN bars
    ELSE LET b == ScenarioBars(scens[i], hist, ssp, range)
         IN  IF b = "UnboundLocalError" THEN "UnboundLocalError"
             ELSE ScenarioLoop(scens, i + 1, hist, ssp, range, bars \o b)

\* variant: the timeline is drawn under the warming-level approach too
scenario_view_any_approach(hist, ssp, appr, dm, ts) ==
    IF hist = <<"n/a">> \/ ssp = <<"n/a">>
    THEN EmptyFigure
    ELSE IF historical_climate_range(dm) = "ValueError"
    THEN [EmptyFigure EXCEPT !.error = "ValueError"]
    ELSE LET bars == ScenarioLoop(ssp \o hist, 1, hist, ssp,
                                  historical_climate_range(dm), <<>>)
         IN  IF bars = "UnboundLocalError"
             THEN [EmptyFigure EXCEPT !.error = "UnboundLocalError"]
             ELSE [timeline |-> TRUE, set_xlim |-> <<1950, 2100>>,
                   errorbar |-> bars, fill_betweenx |-> <<ts>>,
                   error |-> "none"]

\* scenario_view: the figure it returns
scenario_view(hist, ssp, appr, dm, ts) ==
    IF hist = <<"n/a">> \/ ssp = <<"n/a">> \/ appr = "Warming Level"
    THEN EmptyFigure
    ELSE IF historical_climate_range(dm) = "ValueError"
    THEN [EmptyFigure EXCEPT !.error = "ValueError"]
    ELSE LET bars == ScenarioLoop(ssp \o hist, 1, hist, ssp,
                                  historical_climate_range(dm), <<>>)
         IN  IF bars = "UnboundLocalError"
             THEN [EmptyFigure EXCEPT !.error = "UnboundLocalError"]
             ELSE [timeline |-> TRUE, set_xlim |-> <<1950, 2100>>,
                   errorbar |-> bars, fill_betweenx |-> <<ts>>,
                   error |-> "none"]

ScnInit ==
    /\ panel = "scenario"
    /\ HmUnused
    /\ WlUnused
    /\ OptUnused
    /\ scenario_historical \in ScenarioHistoricalChoices
    /\ scenario_ssp \in ScenarioSspChoices
    /\ approach \in Approaches
    /\ downscaling_method \in DownscalingMethods
    /\ time_slice \in TimeSlices
    /\ scenario_fig = EmptyFigure
    /\ area_subset = "none"
    /\ cached_area = <<>>
    /\ variable = "Air Temperature at 2m"
    /\ units = "K"
    /\ resolution = "45 km"
    /\ latitude = NA /\ longitude = NA
    /\ da = NA /\ threshold_value = NA /\ threshold_label = NA
    /\ changed_loc_and_var = NA /\ changed_units = NA /\ view_result = NA
    /\ amy_type = NA /\ computation_method = NA
    /\ tmy_computation_description = NA /\ cmap = NA /\ warmlevel = NA
    /\ historical_tmy_data = NA /\ future_tmy_data = NA
    /\ data_type = "Gridded"
    /\ extent = NA /\ scatter_size = NA /\ map_error = NA /\ map_calls = NA
    /\ op = "init"
    /\ calls = NoCalls
    /\ raised = "none"
    /\ loc_var_touched = FALSE
    /\ units_touched = FALSE
    /\ view_stale = FALSE

\* DataParametersWithPanes.scenario_view
ScenarioView ==
    /\ panel = "scenario"
    /\ scenario_fig' = scenario_view(scenario_historical, scenario_ssp,
                                     approach, downscaling_method, time_slice)
    /\ op' = "scenario_view"
    /\ UNCHANGED <<panel, hmVars, view_stale, wlVars, optVars, selVars, thrVars, amyVars, mapVars, approach,
                   downscaling_method, calls, raised, loc_var_touched,
                   units_touched>>

ScnNext == ScenarioView

(***************************************************************************)
(* The event options of the thresholds panel (explore/thresholds.py):      *)
(* parameter validation and the rows that copy duration1 into group and    *)
(* group into duration2.                                                   *)
(***************************************************************************)
MaxLength == 2            \* largest length the user enters

IntegerParams ==
    {"duration1_length", "period_length", "group_length", "duration2_length",
     "num_timesteps"}

SelectorObjects ==
    [threshold_direction |-> {"above", "below"},
     duration1_type |-> {"year", "month", "day", "hour"},
     period_type |-> {"year", "month", "day"},
     group_type |-> {"year", "month", "day", "hour"},
     duration2_type |-> {"year", "month", "day", "hour"},
     smoothing |-> {"None", "Running mean"}]

OptionNames == IntegerParams \cup DOMAIN SelectorObjects

\* values the user or a caller assigns, valid and invalid
OptionInputs(name) ==
    CASE name \in {"duration1_length", "group_length", "duration2_length"} ->
            -1..MaxLength
      [] name \in {"duration1_type", "group_type", "duration2_type"} ->
            {"hour", "day", "week"}
      [] name = "period_length" -> {-1}
      [] name = "period_type" -> {"month", "hour"}
      [] name = "threshold_direction" -> {"equal"}
      [] name = "smoothing" -> {"Running Mean"}
      [] name = "num_timesteps" -> {-1, 5}

\* the event options of the object, by name
OptionFields ==
    [threshold_direction |-> threshold_direction,
     duration1_length |-> duration1_length, duration1_type |-> duration1_type,
     period_length |-> period_length, period_type |-> period_type,
     group_length |-> group_length, group_type |-> group_type,
     duration2_length |-> duration2_length, duration2_type |-> duration2_type,
     smoothing |-> smoothing, num_timesteps |-> num_timesteps]

\* variant: Integer parameters declared without bounds
_validate_value_unbounded(name, v) ==
    IF name \in IntegerParams THEN TRUE ELSE v \in SelectorObjects[name]

\* the validation of the declared parameter: Integer with bounds (0, None),
\* Selector with its objects
_validate_value(name, v) ==
    IF name \in IntegerParams THEN v >= 0 ELSE v \in SelectorObjects[name]

\* variant: duration2_row copies the length only
duration2_row_length_only(o) ==
    [o EXCEPT !.duration2_length = o.group_length]

\* duration2_row: copies the group fields into the duration2 fields
duration2_row(o) ==
    [o EXCEPT !.duration2_length = o.group_length,
              !.duration2_type = o.group_type]

\* one assignment to group_length or group_type: when the value changes the
\* displayed duration2_row, which depends on it, is evaluated at once
AssignGroup(s, name, v) ==
    IF s.o[name] = v THEN s
    ELSE LET o1 == [s.o EXCEPT ![name] = v]
         IN  [o |-> duration2_row(o1),
              seen |-> Append(s.seen, <<o1.group_length, o1.group_type>>)]

\* variant: group_row copies the length only
group_row_length_only(s) ==
    AssignGroup(s, "group_length", s.o.duration1_length)

\* group_row: two assignments, one after the other
group_row(s) ==
    AssignGroup(AssignGroup(s, "group_length", s.o.duration1_length),
                "group_type", s.o.duration1_type)

\* the assignment self.<name> = v with everything it triggers
set_param(o, name, v) ==
    IF ~_validate_value(name, v)
    THEN [o |-> o, seen |-> <<>>, error |-> "ValueError"]
    ELSE IF o[name] = v
    THEN [o |-> o, seen |-> <<>>, error |-> "none"]
    ELSE LET s0 == [o |-> [o EXCEPT ![name] = v], seen |-> <<>>]
             s1 == IF name \in {"duration1_length", "duration1_type"}
                   THEN group_row(s0)
                   ELSE IF name \in {"group_length", "group_type"}
                   THEN AssignGroup([o |-> o, seen |-> <<>>], name, v)
                   ELSE s0
         IN  [o |-> s1.o, seen |-> s1.seen, error |-> "none"]

\* the options card is displayed on a freshly constructed object
OptInit ==
    /\ panel = "options"
    /\ ThrConstructed
    /\ latitude = NA /\ longitude = NA

OptSetParam(name, v) ==
    /\ panel = "options"
    /\ LET r == set_param(OptionFields, name, v)
       IN  /\ threshold_direction' = r.o.threshold_direction
           /\ duration1_length' = r.o.duration1_length
           /\ duration1_type' = r.o.duration1_type
           /\ period_length' = r.o.period_length
           /\ period_type' = r.o.period_type
           /\ group_length' = r.o.group_length
           /\ group_type' = r.o.group_type
           /\ duration2_length' = r.o.duration2_length
           /\ duration2_type' = r.o.duration2_type
           /\ smoothing' = r.o.smoothing
           /\ num_timesteps' = r.o.num_timesteps
           /\ param_error' = r.error
           /\ duration2_row_seen' = r.seen
    /\ param_set' = <<name, v>>
    /\ op' = "set_param"
    /\ UNCHANGED <<panel, hmVars, view_stale, wlVars, scnVars, selVars, thrVars, amyVars, mapVars, calls,
                   raised, loc_var_touched, units_touched>>

OptNext == \E name \in OptionNames : \E v \in OptionInputs(name) :
               OptSetParam(name, v)

(***************************************************************************)
(* thresholds_visualize: the whole panel of explore.thresholds(), with the *)
(* data options (among them the latitude and longitude ranges), the        *)
(* options card and the exceedance view.                                   *)
(***************************************************************************)
VisAreaSubsets == {"CA counties", "lat/lon"}

\* the first location offered for a kind of subset
VisFirstArea(a) ==
    IF a = "lat/lon" THEN <<"coordinate selection">>
    ELSE <<CachedAreaOptions[a][1]>>

VisLatitudes == {<<31, 43>>, <<33, 40>>}
VisLongitudes == {<<-125, -114>>, <<-122, -118>>}

\* the options the user changes on the card, each with its default and
\* another valid value
VisOptionInputs ==
    [threshold_direction |-> {"above", "below"},
     duration1_length |-> {1, 2},
     period_type |-> {"year", "month"},
     smoothing |-> {"None", "Running mean"}]

VisInit ==
    /\ panel = "visualize"
    /\ ThrConstructed
    /\ latitude = <<31, 43>> /\ longitude = <<-125, -114>>

\* user picks another kind of subset; cached_area is reset to its first
\* option, and both changes reach _updated_bool_loc_and_var
VisSetAreaSubset(a) ==
    /\ panel = "visualize"
    /\ a # area_subset
    /\ area_subset' = a
    /\ cached_area' = VisFirstArea(a)
    /\ changed_loc_and_var' = _updated_bool_loc_and_var(changed_loc_and_var)
    /\ view_result' = Rendered("area_subset", "none")
    /\ op' = "set_area_subset"
    /\ calls' = NoCalls /\ raised' = "none"
    /\ UNCHANGED <<panel, hmVars, view_stale, wlVars, optVars, scnVars, variable,
                   units, resolution, latitude, longitude,
                   scenario_historical, scenario_ssp, time_slice, da,
                   threshold_value, threshold_label, changed_units, amyVars,
                   mapVars, loc_var_touched, units_touched>>

\* user moves the latitude or the longitude range.  When the subset is not
\* yet "lat/lon" the selector switches it to "lat/lon", which is a change of
\* area_subset; no method of ThresholdParameters depends on latitude or
\* longitude themselves.
VisSetBounds(lat, lon) ==
    /\ panel = "visualize"
    /\ <<lat, lon>> # <<latitude, longitude>>
    /\ lat = latitude \/ lon = longitude
    /\ latitude' = lat /\ longitude' = lon
    /\ IF area_subset # "lat/lon"
       THEN /\ area_subset' = "lat/lon"
            /\ cached_area' = VisFirstArea("lat/lon")
            /\ changed_loc_and_var' =
                   _updated_bool_loc_and_var(changed_loc_and_var)
       ELSE UNCHANGED <<area_subset, cached_area, changed_loc_and_var>>
    /\ view_result' = Rendered(IF lat # latitude THEN "latitude"
                                                 ELSE "longitude", "none")
    /\ op' = "set_bounds"
    /\ calls' = NoCalls /\ raised' = "none"
    /\ UNCHANGED <<panel, hmVars, view_stale, wlVars, optVars, scnVars, variable,
                   units, resolution, scenario_historical, scenario_ssp,
                   time_slice, da, threshold_value, threshold_label,
                   changed_units, amyVars, mapVars, loc_var_touched,
                   units_touched>>

\* user changes a field of the options card
VisSetOption(name, v) ==
    /\ panel = "visualize"
    /\ LET r == set_param(OptionFields, name, v)
       IN  /\ threshold_direction' = r.o.threshold_direction
           /\ duration1_length' = r.o.duration1_length
           /\ duration1_type' = r.o.duration1_type
           /\ period_length' = r.o.period_length
           /\ period_type' = r.o.period_type
           /\ group_length' = r.o.group_length
           /\ group_type' = r.o.group_type
           /\ duration2_length' = r.o.duration2_length
           /\ duration2_type' = r.o.duration2_type
           /\ smoothing' = r.o.smoothing
           /\ num_timesteps' = r.o.num_timesteps
           /\ param_error' = r.error
           /\ duration2_row_seen' = r.seen
           /\ view_result' = IF r.o = OptionFields THEN view_result
                              ELSE Rendered(name, "none")
    /\ param_set' = <<name, v>>
    /\ op' = "set_param"
    /\ calls' = NoCalls /\ raised' = "none"
    /\ UNCHANGED <<panel, hmVars, view_stale, wlVars, scnVars, selVars, da,
                   threshold_value, threshold_label, changed_loc_and_var,
                   changed_units, amyVars, mapVars, loc_var_touched,
                   units_touched>>

VisNext ==
    /\ panel = "visualize"
    /\ \/ \E a \in VisAreaSubsets : VisSetAreaSubset(a)
       \/ \E lat \in VisLatitudes : \E lon \in VisLongitudes :
               VisSetBounds(lat, lon)
       \/ \E name \in DOMAIN VisOptionInputs :
               \E v \in VisOptionInputs[name] : VisSetOption(name, v)
       \/ \E t \in ThresholdChoices : ThrSetThresholdValue(t)
       \/ \E stage \in ViewStages : ThrReloadData(FALSE, stage)
       \/ \E stage \in ViewStages : ThrReloadPlot(stage)

(***************************************************************************)
(* The warming-levels panel (explore/warming.py): the colormap of a        *)
(* variable and the postage stamps of each warming level.                  *)
(***************************************************************************)
MaxSims == 5              \* largest number of simulations in gwl_snapshots

MoistureVariables ==
    {"Precipitation (total)", "Water Vapor Mixing Ratio at 2m",
     "Snowfall (snow and ice)", "Precipitation (cumulus portion only)",
     "Precipitation (grid-scale portion only)", "Subsurface runoff",
     "Surface runoff", "Snow water equivalent", "Snowfall",
     "Precipitation (convective only)"}

CmapVariables ==
    MoistureVariables
        \cup {"Air Temperature at 2m", "Relative humidity",
              "Wind speed at 10m"}

\* colormaps the variable-description table can name
ColormapNames == {"ae_orange", "ae_blue", "ae_diverging", "ae_diverging_r"}

\* minimum of the plotted data
VminChoices == {-1, 0, 1}

\* _get_cmap: the name of the colormap it reads; default_cmap is the
\* colormap of the variable in variable_descriptions
_get_cmap(v, default_cmap, data_vmin) ==
    LET c1 == IF data_vmin < 0
                 /\ ~StrIn(Chars("ae_diverging"), Chars(default_cmap))
              THEN IF v \in MoistureVariables THEN "ae_diverging_r"
                   ELSE "ae_diverging"
              ELSE default_cmap
    IN  IF c1 = "ae_diverging" /\ data_vmin >= 0
        THEN IF v \in MoistureVariables THEN "ae_blue" ELSE "ae_orange"
        ELSE c1

\* the simulations of one warming level that are not entirely null, in order
ReachingSims(data) == SelectSeq([i \in 1..Len(data) |-> i], LAMBDA i : data[i])

NoSimulations == [kind |-> "No simulations reach this warming level"]

\* variant: the number of simulations is taken before the all-null ones are
\* removed
MainStampCountAll(data, single, cmapname) ==
    LET sims == ReachingSims(data)
    IN  IF Len(sims) = 0 THEN NoSimulations
        ELSE IF Len(data) <= 4
        THEN IF single
             THEN [kind |-> "layout", plot |-> "scatter", simulations |-> sims,
                   cols |-> 2, clim |-> FALSE, cmap |-> "default",
                   shared_colorbar |-> FALSE, widget_location |-> "none"]
             ELSE [kind |-> "layout", plot |-> "quadmesh",
                   simulations |-> sims, cols |-> 2, clim |-> TRUE,
                   cmap |-> cmapname, shared_colorbar |-> TRUE,
                   widget_location |-> "none"]
        ELSE IF single
             THEN [kind |-> "selector", plot |-> "scatter",
                   simulations |-> sims, cols |-> 1, clim |-> FALSE,
                   cmap |-> "default", shared_colorbar |-> FALSE,
                   widget_location |-> "bottom"]
             ELSE [kind |-> "selector", plot |-> "quadmesh",
                   simulations |-> sims, cols |-> 1, clim |-> TRUE,
                   cmap |-> cmapname, shared_colorbar |-> FALSE,
                   widget_location |-> "bottom"]

\* the body of the loop of GCM_PostageStamps_MAIN_compute: the entry of one
\* warming level; data[i] says whether simulation i has any value there
MainStamp(data, single, cmapname) ==
    LET sims == ReachingSims(data)
    IN  IF Len(sims) = 0 THEN NoSimulations
        ELSE IF Len(sims) <= 4
        THEN IF single
             THEN [kind |-> "layout", plot |-> "scatter", simulations |-> sims,
                   cols |-> 2, clim |-> FALSE, cmap |-> "default",
                   shared_colorbar |-> FALSE, widget_location |-> "none"]
             ELSE [kind |-> "layout", plot |-> "quadmesh",
                   simulations |-> sims, cols |-> 2, clim |-> TRUE,
                   cmap |-> cmapname, shared_colorbar |-> TRUE,
                   widget_location |-> "none"]
        ELSE IF single
             THEN [kind |-> "selector", plot |-> "scatter",
                   simulations |-> sims, cols |-> 1, clim |-> FALSE,
                   cmap |-> "default", shared_colorbar |-> FALSE,
                   widget_location |-> "bottom"]
             ELSE [kind |-> "selector", plot |-> "quadmesh",
                   simulations |-> sims, cols |-> 1, clim |-> TRUE,
                   cmap |-> cmapname, shared_colorbar |-> FALSE,
                   widget_location |-> "bottom"]

\* variant: the all-null simulations are dropped from the snapshots
\* themselves
_select_one_gwl_in_place(one_gwl, snapshots) ==
    LET kept == ReachingSims(snapshots[one_gwl])
    IN  [all_plot_data |-> kept,
         snapshots |-> [snapshots EXCEPT
                           ![one_gwl] = [i \in 1..Len(kept) |-> TRUE]]]

\* _select_one_gwl: a copy of the snapshots of one warming level without the
\* simulations that are null everywhere, given by their positions; the
\* snapshots themselves are returned as the call leaves them
_select_one_gwl(one_gwl, snapshots) ==
    [all_plot_data |-> ReachingSims(snapshots[one_gwl]),
     snapshots |-> snapshots]

\* variant: the statistics are drawn only when two simulations are left
StatsStampTwoSims(all_plot_data, single, cmapname) ==
    IF Len(all_plot_data) > 1
    THEN IF single
         THEN [kind |-> "bar",
               simulations |-> <<"Minimum", "Maximum", "Median">>,
               cols |-> 1, clim |-> FALSE, cmap |-> "default",
               shared_colorbar |-> FALSE]
         ELSE [kind |-> "layout",
               simulations |-> <<"Minimum", "Maximum", "Median">>,
               cols |-> 2, clim |-> TRUE, cmap |-> cmapname,
               shared_colorbar |-> TRUE]
    ELSE NoSimulations

\* the body of the loop of GCM_PostageStamps_STATS_compute on the data
\* _select_one_gwl returned; find_sim renames the three simulations it
\* selects from that copy
StatsStamp(all_plot_data, single, cmapname) ==
    IF Len(all_plot_data) # 0
    THEN IF single
         THEN [kind |-> "bar",
               simulations |-> <<"Minimum", "Maximum", "Median">>,
               cols |-> 1, clim |-> FALSE, cmap |-> "default",
               shared_colorbar |-> FALSE]
         ELSE [kind |-> "layout",
               simulations |-> <<"Minimum", "Maximum", "Median">>,
               cols |-> 2, clim |-> TRUE, cmap |-> cmapname,
               shared_colorbar |-> TRUE]
    ELSE NoSimulations

LevelSet(levels) == {levels[i] : i \in 1..Len(levels)}

GCM_PostageStamps_MAIN_compute(levels, snapshots, single, v, default_cmap, mins) ==
    [l \in LevelSet(levels) |->
        MainStamp(snapshots[l], single, _get_cmap(v, default_cmap, mins[l]))]

GCM_PostageStamps_STATS_compute(levels, snapshots, single, v, default_cmap, mins) ==
    [l \in LevelSet(levels) |->
        StatsStamp(_select_one_gwl(l, snapshots).all_plot_data, single,
                   _get_cmap(v, default_cmap, mins[l]))]

\* wl_viz.gwl_snapshots after the loop of GCM_PostageStamps_STATS_compute
\* has called _select_one_gwl for the levels from position i on;
\* GCM_PostageStamps_MAIN_compute only derives new arrays (sel, rename,
\* where)
RECURSIVE StatsLoopSnapshots(_, _, _)
StatsLoopSnapshots(levels, i, snapshots) ==
    IF i > Len(levels) THEN snapshots
    ELSE StatsLoopSnapshots(levels, i + 1,
                            _select_one_gwl(levels[i], snapshots).snapshots)

\* the values of the warmlevel selector, in tenths of a degree
WarmlevelObjects == {15, 20, 30, 40}

DecimalDigits == <<"0", "1", "2", "3", "4", "5", "6", "7", "8", "9">>

\* str(float(w)): the integer part, a point and the tenths
str_float(w) ==
    DecimalDigits[(w \div 10) + 1] \o "." \o DecimalDigits[(w % 10) + 1]

\* the lookup of GCM_PostageStamps_MAIN and GCM_PostageStamps_STATS
StampLookup(stamps, w) ==
    IF str_float(w) \in DOMAIN stamps THEN "none" ELSE "KeyError"

\* the fields of the panels that neither the warming-levels object nor
\* _get_cmap has
WlOtherFields ==
    /\ ScnUnused /\ OptUnused /\ HmUnused
    /\ area_subset = "none"
    /\ cached_area = <<>>
    /\ units = "K"
    /\ resolution = "45 km"
    /\ latitude = NA /\ longitude = NA
    /\ scenario_historical = <<>>
    /\ scenario_ssp = <<>>
    /\ time_slice = <<1980, 2015>>
    /\ da = NA /\ threshold_value = NA /\ threshold_label = NA
    /\ changed_loc_and_var = NA /\ changed_units = NA /\ view_result = NA
    /\ amy_type = NA /\ computation_method = NA
    /\ tmy_computation_description = NA /\ cmap = NA
    /\ historical_tmy_data = NA /\ future_tmy_data = NA
    /\ data_type = "Gridded"
    /\ extent = NA /\ scatter_size = NA /\ map_error = NA /\ map_calls = NA
    /\ op = "init"
    /\ calls = NoCalls
    /\ raised = "none"
    /\ loc_var_touched = FALSE
    /\ units_touched = FALSE
    /\ view_stale = FALSE

\* WarmingLevelVisualize.__init__ on loaded snapshots
WlInit ==
    /\ panel = "warming"
    /\ WlOtherFields
    /\ variable = "Air Temperature at 2m"
    /\ default_colormap = "ae_orange"
    /\ warming_levels \in {<<"2.0">>, <<"1.5", "2.0">>}
    /\ \E n \in 1..MaxSims :
          gwl_snapshots \in [LevelSet(warming_levels) -> [1..n -> BOOLEAN]]
    /\ single_spatial \in BOOLEAN
    /\ level_min \in [LevelSet(warming_levels) -> {-1, 1}]
    /\ main_stamps = <<>> /\ stats_stamps = <<>>
    /\ vmin = NA /\ cmap_name = NA
    /\ warmlevel = 15

\* WarmingLevelVisualize.compute_stamps
WlComputeStamps ==
    /\ panel = "warming"
    /\ main_stamps' = GCM_PostageStamps_MAIN_compute(
                          warming_levels, gwl_snapshots, single_spatial,
                          variable, default_colormap, level_min)
    /\ stats_stamps' = GCM_PostageStamps_STATS_compute(
                           warming_levels, gwl_snapshots, single_spatial,
                           variable, default_colormap, level_min)
    /\ gwl_snapshots' = StatsLoopSnapshots(warming_levels, 1, gwl_snapshots)
    /\ op' = "compute_stamps"
    /\ raised' = "none"
    /\ UNCHANGED <<panel, hmVars, view_stale, scnVars, optVars, selVars, thrVars, amyVars, mapVars,
                   warming_levels, single_spatial, level_min,
                   default_colormap, vmin, cmap_name, calls,
                   loc_var_touched, units_touched>>

\* the user picks a warming level on the displayed panel: the value is
\* stored, then GCM_PostageStamps_MAIN and GCM_PostageStamps_STATS look
\* their entry up
WlSetWarmlevel(w) ==
    /\ panel = "warming"
    /\ op # "init"
    /\ w # warmlevel
    /\ warmlevel' = w
    /\ raised' = IF StampLookup(main_stamps, w) = "none"
                 THEN StampLookup(stats_stamps, w) ELSE "KeyError"
    /\ op' = "set_warmlevel"
    /\ UNCHANGED <<panel, hmVars, view_stale, scnVars, optVars, selVars, thrVars,
                   amy_type, computation_method, tmy_computation_description,
                   cmap, historical_tmy_data, future_tmy_data, mapVars,
                   wlVars, calls, loc_var_touched, units_touched>>

WlNext ==
    /\ panel = "warming"
    /\ \/ WlComputeStamps
       \/ \E w \in WarmlevelObjects : WlSetWarmlevel(w)

\* a call of _get_cmap with a variable, its table colormap and a minimum
CmapInit ==
    /\ panel = "colormap"
    /\ WlOtherFields
    /\ variable \in CmapVariables
    /\ default_colormap \in ColormapNames
    /\ vmin \in VminChoices
    /\ cmap_name = NA
    /\ warmlevel = NA
    /\ warming_levels = NA /\ gwl_snapshots = NA /\ single_spatial = NA
    /\ level_min = NA /\ main_stamps = NA /\ stats_stamps = NA

GetCmap ==
    /\ panel = "colormap"
    /\ cmap_name' = _get_cmap(variable, default_colormap, vmin)
    /\ op' = "_get_cmap"
    /\ UNCHANGED <<panel, hmVars, view_stale, scnVars, optVars, selVars, thrVars, amyVars, mapVars,
                   warming_levels, gwl_snapshots, single_spatial, level_min,
                   main_stamps, stats_stamps, default_colormap, vmin, calls,
                   raised, loc_var_touched, units_touched>>

CmapNext == GetCmap

(***************************************************************************)
(* The heatmaps of a meteorological year (explore/amy.py): a frame with    *)
(* one row per day of the year, drawn interactively or statically.         *)
(***************************************************************************)
MinRows == 360            \* fewest rows of a frame handed to the heatmaps
MaxRows == 370            \* most rows of a frame handed to the heatmaps

HeatmapColormaps == {"ae_orange", "ae_diverging", "ae_blue", "viridis"}

\* the labelled ticks of meteo_yr_heatmap for a leap year
LeapYearTicks ==
    << <<31, "Feb-01">>, <<91, "Apr-01">>, <<152, "Jun-01">>,
       <<213, "Aug-01">>, <<274, "Oct-01">>, <<335, "Dec-01">> >>

\* the yticks of meteo_yr_heatmap for a frame of n rows
meteo_yr_heatmap_idx(n) ==
    IF n = 366 THEN [yticks |-> LeapYearTicks, raised |-> "none"]
    ELSE IF n = 365
    THEN [yticks |-> [i \in 1..Len(LeapYearTicks) |->
                         <<LeapYearTicks[i][1] - 1, LeapYearTicks[i][2]>>],
          raised |-> "none"]
    ELSE [yticks |-> <<>>, raised |-> "ValueError"]

\* the rows meteo_yr_heatmap_static puts its ticks at
first_days_of_month(n) ==
    IF n = 366
    THEN <<0, 31, 60, 91, 121, 152, 182, 213, 244, 274, 305, 335>>
    ELSE <<0, 31, 59, 90, 120, 151, 181, 212, 243, 273, 304, 334>>

\* the colormap handed to the plot: the Analytics Engine colormaps are read
\* from their files, as hex codes for the interactive plot
HeatmapColormap(name, hex) ==
    IF name \in {"ae_orange", "ae_diverging", "ae_blue"}
    THEN [name |-> name, read |-> IF hex THEN "hex" ELSE "rgb"]
    ELSE [name |-> name, read |-> "no"]

HmOtherFields ==
    /\ ScnUnused /\ OptUnused /\ WlUnused
    /\ area_subset = "none"
    /\ cached_area = <<>>
    /\ variable = "Air Temperature at 2m"
    /\ units = "K"
    /\ resolution = "45 km"
    /\ latitude = NA /\ longitude = NA
    /\ scenario_historical = <<>>
    /\ scenario_ssp = <<>>
    /\ time_slice = <<1980, 2015>>
    /\ da = NA /\ threshold_value = NA /\ threshold_label = NA
    /\ changed_loc_and_var = NA /\ changed_units = NA /\ view_result = NA
    /\ amy_type = NA /\ computation_method = NA
    /\ tmy_computation_description = NA /\ warmlevel = NA
    /\ historical_tmy_data = NA /\ future_tmy_data = NA
    /\ data_type = "Gridded"
    /\ extent = NA /\ scatter_size = NA /\ map_error = NA /\ map_calls = NA
    /\ op = "init"
    /\ calls = NoCalls
    /\ raised = "none"
    /\ loc_var_touched = FALSE
    /\ units_touched = FALSE
    /\ view_stale = FALSE

\* a frame and a colormap name before either heatmap is drawn
HmInit ==
    /\ panel = "heatmap"
    /\ HmOtherFields
    /\ meteo_yr_len \in MinRows..MaxRows
    /\ cmap \in HeatmapColormaps
    /\ yticks = <<>>
    /\ heatmap_cmap = [name |-> cmap, read |-> "no"]

MeteoYrHeatmap ==
    /\ panel = "heatmap"
    /\ LET r == meteo_yr_heatmap_idx(meteo_yr_len)
       IN  /\ yticks' = r.yticks
           /\ raised' = r.raised
    /\ heatmap_cmap' = HeatmapColormap(cmap, TRUE)
    /\ op' = "meteo_yr_heatmap"
    /\ UNCHANGED <<panel, view_stale, wlVars, optVars, scnVars, selVars,
                   thrVars, amy_type, computation_method,
                   tmy_computation_description, cmap, warmlevel,
                   historical_tmy_data, future_tmy_data, mapVars,
                   meteo_yr_len, calls, loc_var_touched, units_touched>>

MeteoYrHeatmapStatic ==
    /\ panel = "heatmap"
    /\ LET days == first_days_of_month(meteo_yr_len)
       IN  yticks' = [i \in 1..Len(days) |-> <<days[i], "index">>]
    /\ raised' = "none"
    /\ heatmap_cmap' = HeatmapColormap(cmap, FALSE)
    /\ op' = "meteo_yr_heatmap_static"
    /\ UNCHANGED <<panel, view_stale, wlVars, optVars, scnVars, selVars,
                   thrVars, amy_type, computation_method,
                   tmy_computation_description, cmap, warmlevel,
                   historical_tmy_data, future_tmy_data, mapVars,
                   meteo_yr_len, calls, loc_var_touched, units_touched>>

HmNext ==
    /\ panel = "heatmap"
    /\ \/ MeteoYrHeatmap
       \/ MeteoYrHeatmapStatic

Init ==
    \/ ThrInit \/ AmyInit \/ MapInit \/ ScnInit \/ OptInit \/ WlInit
    \/ CmapInit \/ VisInit \/ HmInit
Next ==
    \/ ThrNext \/ AmyNext \/ MapNext \/ ScnNext \/ OptNext \/ WlNext
    \/ CmapNext \/ VisNext \/ HmNext
SpecHeatmap == HmInit /\ [][HmNext]_vars
SpecVisualize == VisInit /\ [][VisNext]_vars
SpecWarming == WlInit /\ [][WlNext]_vars
SpecGetCmap == CmapInit /\ [][CmapNext]_vars
SpecThresholdOptions == OptInit /\ [][OptNext]_vars
SpecScenarioView == ScnInit /\ [][ScnNext]_vars
SpecMapView == MapInit /\ [][MapNext]_vars
SpecThresholds == ThrInit /\ [][ThrNext]_vars
SpecAmy == AmyInit /\ [][AmyNext]_vars
Spec == Init /\ [][Next]_vars

(***************************************************************************)
(* Properties                                                              *)
(***************************************************************************)
ThrReloadStep == panel = "thresholds" /\ op' = "reload_data"

C2_AtMostOneRetrievalPerReload ==
    op = "reload_data"
        => calls.get_threshold_data + calls.retrieve_meteo_yr_data <= 1

\* C2 as amended: one reload makes at most one call to get_threshold_data in
\* the thresholds panel; in the AMY panel it makes at most two calls to
\* retrieve_meteo_yr_data, and exactly two when none of them raises.
C2_RetrievalsPerReload ==
    op = "reload_data"
        => /\ panel = "thresholds"
                => /\ calls.get_threshold_data <= 1
                   /\ calls.retrieve_meteo_yr_data = 0
           /\ panel = "amy"
                => /\ calls.get_threshold_data = 0
                   /\ calls.retrieve_meteo_yr_data <= 2
                   /\ raised = "none" => calls.retrieve_meteo_yr_data = 2

C2_Witness ==
    /\ panel = "amy" /\ op = "reload_data" /\ raised = "none"
    /\ calls.retrieve_meteo_yr_data = 2

\* C3: after a reload_data that completed without error both dirty flags are
\* False, and a reload_data that follows it with no parameter change in
\* between calls neither get_threshold_data nor convert_units and leaves da,
\* threshold_value and both flags unchanged.
C3_ReloadIdempotent ==
    [][(panel = "thresholds" /\ op = "reload_data" /\ raised = "none")
        => /\ ~changed_loc_and_var /\ ~changed_units
           /\ op' = "reload_data"
                => /\ calls' = NoCalls
                   /\ da' = da
                   /\ threshold_value' = threshold_value
                   /\ changed_loc_and_var' = changed_loc_and_var
                   /\ changed_units' = changed_units]_vars

C3_Witness ==
    /\ panel = "thresholds" /\ op = "reload_data" /\ raised = "none"
    /\ calls = NoCalls
    /\ ~changed_loc_and_var /\ ~changed_units

\* C4 as stated: a reload_data with both dirty flags set runs the retrieval
\* and does not apply the unit conversion in that reload; both flags are
\* clear afterwards.
C4_NoConversionAfterRetrieval ==
    [][(ThrReloadStep /\ changed_loc_and_var /\ changed_units
            /\ raised' = "none")
        => /\ calls'.get_threshold_data = 1
           /\ calls'.convert_units = 0
           /\ ~changed_loc_and_var' /\ ~changed_units']_vars

\* C4 as amended: a reload_data with both dirty flags set runs the retrieval
\* and then applies convert_units once to the freshly retrieved dataset in
\* that same reload; both flags are clear afterwards.
C4_ConversionFollowsRetrieval ==
    [][(ThrReloadStep /\ changed_loc_and_var /\ changed_units
            /\ raised' = "none")
        => /\ calls'.get_threshold_data = 1
           /\ calls'.convert_units = 1
           /\ da' = convert_units(
                        get_threshold_data(area_subset, cached_area,
                                           variable, units), units)
           /\ ~changed_loc_and_var' /\ ~changed_units']_vars

C4_Witness ==
    /\ panel = "thresholds" /\ op = "reload_data" /\ raised = "none"
    /\ calls.get_threshold_data = 1 /\ calls.convert_units = 1

\* C5: after every reload_data that refreshed the dataset, by retrieval or by
\* unit conversion, threshold_value is the rounded mean of the refreshed
\* dataset and the threshold label names the current units.
C5_ThresholdFollowsRefresh ==
    [][(ThrReloadStep /\ raised' = "none" /\ calls' # NoCalls)
        => /\ threshold_value' = RoundedMean(da')
           /\ threshold_label' = units']_vars

\* C6: a mutation of area_subset, cached_area or variable sets
\* changed_loc_and_var, a mutation of units sets changed_units, and no
\* operation other than reload_data calls get_threshold_data or
\* convert_units or replaces da.
C6_MutationsOnlySetFlags ==
    [][panel = "thresholds"
        => /\ (area_subset' # area_subset \/ cached_area' # cached_area
                    \/ variable' # variable) => changed_loc_and_var'
           /\ units' # units => changed_units'
           /\ op' # "reload_data" => (calls' = NoCalls /\ da' = da)]_vars

C6_Witness ==
    /\ panel = "thresholds" /\ op = "set_units"
    /\ changed_units /\ ~changed_loc_and_var
    /\ da.units # units

\* C7: when get_threshold_data raises during reload_data, da keeps its
\* previous value, the retrieval was attempted once and nothing else was
\* called, and changed_loc_and_var stays set.
C7_FailedRetrievalKeepsDataset ==
    [][(ThrReloadStep /\ raised' = "get_threshold_data")
        => /\ da' = da
           /\ calls'.get_threshold_data = 1
           /\ calls'.convert_units = 0
           /\ changed_loc_and_var'
           /\ changed_units' = changed_units]_vars

C7_Witness ==
    /\ panel = "thresholds" /\ op = "reload_data"
    /\ raised = "get_threshold_data"
    /\ changed_loc_and_var
    /\ da.cached_area # cached_area

\* C8: ThresholdParameters.view never raises to its caller, whichever of
\* the exceedance computation, the plot, the title and the subtitle fails.
C8_ViewNeverRaises ==
    panel = "thresholds" => view_result # "raised"

\* C9: for area_subset "lat/lon" the extent is the first of California,
\* Western US, North America whose box contains the selected bounds, and
\* North America when none does.
C9_LatLonSmallestContainingExtent ==
    (panel = "select" /\ op = "map_view" /\ area_subset = "lat/lon")
        => LET inside(e) == /\ e[1] <= longitude[1] /\ longitude[2] <= e[2]
                            /\ e[3] <= latitude[1] /\ latitude[2] <= e[4]
               order == <<ca_extent, us_extent, na_extent>>
               hits == {i \in 1..3 : inside(order[i])}
           IN  IF hits = {} THEN extent = na_extent
               ELSE \E i \in hits :
                        /\ extent = order[i]
                        /\ \A j \in hits : i <= j

C9_Witness ==
    /\ panel = "select" /\ op = "map_view" /\ area_subset = "lat/lon"
    /\ latitude = <<31, 43>> /\ longitude = <<-125, -114>>
    /\ extent = ca_extent

\* C10: for every area_subset other than "lat/lon" the extent depends on
\* resolution and area_subset only: California for "3 km" or a CA kind,
\* else Western US for "9 km" or "states", else North America for "none",
\* else California; the "extent not set correctly" error is never raised.
C10_NamedExtentTable ==
    (panel = "select" /\ op = "map_view" /\ area_subset # "lat/lon")
        => /\ extent =
                CASE resolution = "3 km"
                        \/ area_subset \in {"CA counties", "CA watersheds"}
                        -> ca_extent
                  [] OTHER ->
                        IF resolution = "9 km" \/ area_subset = "states"
                        THEN us_extent
                        ELSE IF area_subset = "none" THEN na_extent
                        ELSE ca_extent
           /\ map_error # "extent not set correctly"

C10_Witness ==
    /\ panel = "select" /\ op = "map_view"
    /\ area_subset = "states" /\ resolution = "3 km"
    /\ extent = ca_extent

\* C13: in the AMY panel reload_data retrieves the meteorological-year data
\* only if the location or the variable was changed since the data was last
\* loaded; a reload without such a change makes no retrieval and leaves both
\* datasets unchanged.
C13_AmyReloadOnlyAfterChange ==
    [][(panel = "amy" /\ op' = "reload_data" /\ ~loc_var_touched)
        => /\ calls'.retrieve_meteo_yr_data = 0
           /\ historical_tmy_data' = historical_tmy_data
           /\ future_tmy_data' = future_tmy_data]_vars

\* C14: in the AMY panel, after a change of computation_method or warmlevel
\* and after reload_data, the scenario lists and the time slice agree with
\* the computation method: "Historical" has the historical scenario only and
\* 1981-2010, "Warming Level Future" has the SSP 3-7.0 scenario only and the
\* 30-year range of the warming level; the default selection has no SSP.
AmyConsistent ==
    /\ computation_method = "Historical"
        => /\ scenario_historical = <<"Historical Climate">>
           /\ scenario_ssp = <<>>
           /\ time_slice = <<1981, 2010>>
    /\ computation_method = "Warming Level Future"
        => /\ scenario_historical = <<>>
           /\ Len(scenario_ssp) = 1
           /\ scenario_ssp[1] = "SSP 3-7.0 -- Business as Usual"
           /\ time_slice = (CASE warmlevel = "1.5" -> <<2034, 2063>>
                              [] warmlevel = "2" -> <<2047, 2076>>
                              [] warmlevel = "3" -> <<2061, 2090>>)
    /\ computation_method \in {"Historical", "Warming Level Future"}
        => (scenario_historical = <<>>) # (scenario_ssp = <<>>)

C14_SelectionFollowsMethod ==
    /\ (panel = "amy" /\ op \in {"set_computation_method", "set_warmlevel",
                                 "reload_data", "set_amy_type"})
            => AmyConsistent
    /\ (panel = "amy" /\ op = "init")
            => (computation_method = "Historical" /\ scenario_ssp = <<>>)

C14_Witness ==
    /\ panel = "amy" /\ op = "set_warmlevel"
    /\ computation_method = "Warming Level Future" /\ warmlevel = "3"
    /\ time_slice = <<2061, 2090>>

\* C15 as stated: every call of _map_view sets the map extent exactly once
\* and draws one scatter if and only if data_type is "Station".
C15_ScatterIffStationEveryCall ==
    (panel = "select" /\ op = "map_view")
        => /\ map_calls.set_extent = 1
           /\ map_calls.scatter = 1 <=> data_type = "Station"

\* C15 (amended): _map_view sets the map extent exactly once per call; a
\* call that returns overlays the station points with one scatter call if
\* and only if data_type is "Station"; for any other data_type, and in a
\* call that raises ValueError before the overlay, no scatter is drawn.
C15_ExtentOnceScatterIffStation ==
    (panel = "select" /\ op = "map_view")
        => /\ map_calls.set_extent = 1
           /\ map_error = "none"
                => (map_calls.scatter = 1 <=> data_type = "Station")
           /\ (map_error # "none" \/ data_type # "Station")
                => map_calls.scatter = 0

C15_Witness ==
    /\ panel = "select" /\ op = "map_view" /\ map_error = "none"
    /\ data_type = "Station"
    /\ map_calls.set_extent = 1 /\ map_calls.scatter = 1

\* C16: for each of the resolutions "45 km", "9 km", "3 km" _map_view draws
\* exactly one model-grid boundary, the polygon of that resolution labelled
\* with that resolution; for any other resolution it raises ValueError.
C16_OneBoundaryOfSelectedResolution ==
    (panel = "select" /\ op = "map_view")
        => IF resolution \in {"45 km", "9 km", "3 km"}
           THEN /\ map_error = "none"
                /\ Len(map_calls.add_res_to_ax) = 1
                /\ map_calls.add_res_to_ax[1].args.poly = [wrf_bb |-> resolution]
                /\ map_calls.add_res_to_ax[1].args.label = resolution
           ELSE /\ map_error = "resolution needs to be 45 km, 9 km, 3 km"
                /\ map_calls.add_res_to_ax = <<>>

C16_Witness ==
    /\ panel = "select" /\ op = "map_view" /\ resolution = "9 km"
    /\ Len(map_calls.add_res_to_ax) = 1
    /\ map_calls.add_res_to_ax[1].args.label = "9 km"

\* C20: _add_res_to_ax adds exactly one geometry, the given polygon, with
\* the edge colour of its color argument and white fill, and writes exactly
\* one annotation with text label, position xy and rotation rotation; the
\* annotation is black whatever the color argument.
C20_AddResToAxDrawsOnce ==
    (panel = "select" /\ op = "map_view")
        => \A i \in 1..Len(map_calls.add_res_to_ax) :
              LET c == map_calls.add_res_to_ax[i]
              IN  /\ Len(c.add_geometries) = 1
                  /\ c.add_geometries[1].geoms = <<c.args.poly>>
                  /\ c.add_geometries[1].edgecolor = c.args.color
                  /\ c.add_geometries[1].facecolor = "white"
                  /\ Len(c.annotate) = 1
                  /\ c.annotate[1].text = c.args.label
                  /\ c.annotate[1].xy = c.args.xy
                  /\ c.annotate[1].rotation = c.args.rotation
                  /\ c.annotate[1].color = "black"

C20_Witness ==
    /\ panel = "select" /\ op = "map_view" /\ resolution = "3 km"
    /\ Len(map_calls.add_res_to_ax) = 1
    /\ map_calls.add_res_to_ax[1].args.color = "darkorange"
    /\ map_calls.add_res_to_ax[1].add_geometries[1].edgecolor = "darkorange"
    /\ map_calls.add_res_to_ax[1].annotate[1].color = "black"

\* C17: scenario_view draws the timeline (x-axis fixed to 1950-2100, the
\* selected time_slice shaded exactly once, and at least one scenario bar
\* whenever at least one scenario is selected) if and only if approach is
\* not "Warming Level" and neither scenario_historical nor scenario_ssp is
\* ["n/a"]; otherwise it returns an empty figure; in every case time_slice
\* and both scenario lists are left as they were.
C17_TimelineIffTimeApproach ==
    [][(panel = "scenario" /\ op' = "scenario_view")
        => LET drawn == /\ approach # "Warming Level"
                        /\ scenario_historical # <<"n/a">>
                        /\ scenario_ssp # <<"n/a">>
           IN  /\ scenario_fig'.timeline <=> drawn
               /\ drawn => /\ scenario_fig'.error = "none"
                           /\ scenario_fig'.set_xlim = <<1950, 2100>>
                           /\ scenario_fig'.fill_betweenx = <<time_slice>>
                           /\ (Len(scenario_historical) + Len(scenario_ssp) > 0)
                                => Len(scenario_fig'.errorbar) >= 1
               /\ ~drawn => scenario_fig' = EmptyFigure
               /\ time_slice' = time_slice
               /\ scenario_historical' = scenario_historical
               /\ scenario_ssp' = scenario_ssp]_vars

C17_Witness ==
    /\ panel = "scenario" /\ op = "scenario_view"
    /\ approach = "Time"
    /\ scenario_ssp = <<"SSP 2-4.5", "SSP 5-8.5">>
    /\ scenario_historical = <<"Historical Climate">>
    /\ scenario_fig.timeline
    /\ Len(scenario_fig.errorbar) = 4
    /\ scenario_fig.fill_betweenx = <<time_slice>>

\* C18: assigning a threshold parameter a value outside its declared domain
\* (a negative duration1_length, period_length, group_length,
\* duration2_length or num_timesteps; a threshold_direction, *_type or
\* smoothing outside its enumerated choices) is rejected with an error; the
\* field keeps its previous value and no dirty flag or other field changes.
C18_InvalidValueRejected ==
    [][(panel = "options" /\ op' = "set_param")
        => LET name == param_set'[1]
               v == param_set'[2]
               outside == IF name \in IntegerParams THEN v < 0
                          ELSE v \notin SelectorObjects[name]
           IN  outside => /\ param_error' = "ValueError"
                          /\ OptionFields' = OptionFields
                          /\ changed_loc_and_var' = changed_loc_and_var
                          /\ changed_units' = changed_units
                          /\ UNCHANGED <<selVars, thrVars>>]_vars

C18_Witness ==
    /\ panel = "options" /\ op = "set_param"
    /\ param_set = <<"duration1_length", -1>>
    /\ param_error = "ValueError"
    /\ duration1_length = 2

\* C19 as stated: when group_row copies duration1 into group, duration2_row
\* is recomputed once, with the final state, never with the new
\* group_length paired with the old group_type.
C19_NoIntermediateRecomputation ==
    (panel = "options" /\ op = "set_param")
        => /\ Len(duration2_row_seen) <= 1
           /\ \A i \in 1..Len(duration2_row_seen) :
                 duration2_row_seen[i] = <<group_length, group_type>>

\* C19 (amended): duration2_row is recomputed after each single assignment
\* that changes group_length or group_type, so at most twice when group_row
\* copies duration1 into group, the first time possibly with the new
\* group_length and the old group_type; its last recomputation uses the
\* final state, after which duration2 equals group, and after a change of
\* duration1 group equals duration1.
C19_LastRecomputationIsFinal ==
    [][(panel = "options" /\ op' = "set_param" /\ param_error' = "none")
        => /\ Len(duration2_row_seen') <= 2
           /\ duration2_row_seen' # <<>>
                => /\ duration2_row_seen'[Len(duration2_row_seen')]
                          = <<group_length', group_type'>>
                   /\ duration2_length' = group_length'
                   /\ duration2_type' = group_type'
           /\ (duration1_length' # duration1_length
                    \/ duration1_type' # duration1_type)
                => /\ group_length' = duration1_length'
                   /\ group_type' = duration1_type']_vars

C19_Witness ==
    /\ panel = "options" /\ op = "set_param"
    /\ param_set = <<"duration1_length", 2>>
    /\ duration2_row_seen = << <<2, "day">>, <<2, "hour">> >>
    /\ group_length = 2 /\ group_type = "hour"
    /\ duration2_length = 2 /\ duration2_type = "hour"

\* number of simulations of level l that are not entirely null
NumReaching(l) == Len(ReachingSims(gwl_snapshots[l]))

\* C11 as stated: for each warming level that some simulation reaches, the
\* MAIN stamps are a 2-column layout with a shared colour scale when at most
\* 4 simulations remain after the all-null ones are removed, and a single
\* plot with a selector widget when 5 or more remain.
C11_GridSharedScaleUpToFour ==
    (panel = "warming" /\ op = "compute_stamps")
        => \A l \in LevelSet(warming_levels) :
              /\ NumReaching(l) \in 1..4
                    => /\ main_stamps[l].kind = "layout"
                       /\ main_stamps[l].cols = 2
                       /\ main_stamps[l].clim
                       /\ main_stamps[l].shared_colorbar
              /\ NumReaching(l) >= 5
                    => /\ main_stamps[l].kind = "selector"
                       /\ main_stamps[l].widget_location = "bottom"

\* C11 (amended): for each warming level that some simulation reaches, the
\* MAIN stamps are a 2-column layout of the simulations remaining after the
\* all-null ones are removed when at most 4 remain, and a single plot with
\* a selector widget when 5 or more remain; the layout has a common colour
\* range and one shared colourbar exactly when the data has more than one
\* cell in both spatial dimensions.  A level no simulation reaches gets the
\* message instead.
C11_LayoutUpToFourSelectorFromFive ==
    (panel = "warming" /\ op = "compute_stamps")
        => \A l \in LevelSet(warming_levels) :
              /\ NumReaching(l) = 0 => main_stamps[l] = NoSimulations
              /\ NumReaching(l) \in 1..4
                    => /\ main_stamps[l].kind = "layout"
                       /\ main_stamps[l].cols = 2
                       /\ main_stamps[l].widget_location = "none"
                       /\ Len(main_stamps[l].simulations) = NumReaching(l)
                       /\ main_stamps[l].clim <=> ~single_spatial
                       /\ main_stamps[l].shared_colorbar <=> ~single_spatial
              /\ NumReaching(l) >= 5
                    => /\ main_stamps[l].kind = "selector"
                       /\ main_stamps[l].widget_location = "bottom"
                       /\ Len(main_stamps[l].simulations) = NumReaching(l)

C11_Witness ==
    /\ panel = "warming" /\ op = "compute_stamps"
    /\ warming_levels = <<"1.5", "2.0">>
    /\ Len(gwl_snapshots["1.5"]) = 5
    /\ NumReaching("1.5") = 5 /\ NumReaching("2.0") = 4
    /\ main_stamps["1.5"].kind = "selector"
    /\ main_stamps["2.0"].kind = "layout"
    /\ ~single_spatial /\ main_stamps["2.0"].shared_colorbar

\* C12: for every variable, every default colormap of the variable and
\* every data minimum, _get_cmap returns a diverging palette (ae_diverging
\* or ae_diverging_r) when the minimum is below zero and a sequential one
\* (ae_orange or ae_blue) otherwise.
C12_DivergingIffBelowZero ==
    (panel = "colormap" /\ op = "_get_cmap")
        => IF vmin < 0
           THEN cmap_name \in {"ae_diverging", "ae_diverging_r"}
           ELSE cmap_name \in {"ae_orange", "ae_blue"}

Duration1Changed ==
    duration1_length' # duration1_length \/ duration1_type' # duration1_type

GroupChanged == group_length' # group_length \/ group_type' # group_type

\* C25 as stated: after a change of duration1 group equals duration1 and
\* duration2 equals group; after a change of group alone duration2 equals
\* group and duration1 is unchanged; a change of duration2 alone changes
\* neither group nor duration1.
C25_RowsFollowDuration1 ==
    [][(panel = "options" /\ op' = "set_param" /\ param_error' = "none")
        => /\ Duration1Changed
                => /\ group_length' = duration1_length'
                   /\ group_type' = duration1_type'
                   /\ duration2_length' = group_length'
                   /\ duration2_type' = group_type'
           /\ (param_set'[1] \in {"group_length", "group_type"}
                    /\ GroupChanged)
                => /\ duration2_length' = group_length'
                   /\ duration2_type' = group_type'
                   /\ UNCHANGED <<duration1_length, duration1_type>>
           /\ param_set'[1] \in {"duration2_length", "duration2_type"}
                => UNCHANGED <<duration1_length, duration1_type,
                               group_length, group_type>>]_vars

\* C25 (amended): after a change of duration1 group equals duration1, and
\* duration2 equals group when the copy changed group_length or group_type
\* (when group already held the new values duration2_row is not evaluated
\* and duration2 keeps what the user gave it); after a change of group
\* alone duration2 equals group and duration1 is unchanged; a change of
\* duration2 alone changes neither group nor duration1.
C25_Duration2FollowsChangedGroup ==
    [][(panel = "options" /\ op' = "set_param" /\ param_error' = "none")
        => /\ Duration1Changed
                => /\ group_length' = duration1_length'
                   /\ group_type' = duration1_type'
                   /\ GroupChanged
                        => /\ duration2_length' = group_length'
                           /\ duration2_type' = group_type'
                   /\ ~GroupChanged
                        => UNCHANGED <<duration2_length, duration2_type>>
           /\ (param_set'[1] \in {"group_length", "group_type"}
                    /\ GroupChanged)
                => /\ duration2_length' = group_length'
                   /\ duration2_type' = group_type'
                   /\ UNCHANGED <<duration1_length, duration1_type>>
           /\ param_set'[1] \in {"duration2_length", "duration2_type"}
                => UNCHANGED <<duration1_length, duration1_type,
                               group_length, group_type>>]_vars

C25_Witness ==
    /\ panel = "options" /\ op = "set_param" /\ param_error = "none"
    /\ param_set = <<"duration1_type", "day">>
    /\ duration1_type = "day" /\ group_type = "day" /\ duration2_type = "day"
    /\ duration1_length = 2 /\ group_length = 2 /\ duration2_length = 2
    /\ duration2_row_seen = << <<2, "day">> >>

\* C22: in the AMY panel, after construction and after any change of
\* amy_type or computation_method, computation_method is one of the options
\* of the current amy_type and tmy_computation_description is the
\* dictionary entry of (amy_type, computation_method), never a failed
\* lookup; and a change of amy_type resets computation_method to the
\* default of the new type.
C22_MethodAllowedForType ==
    /\ [](panel = "amy"
            => /\ computation_method
                     \in tmy_advanced_options_dict[amy_type].objects
               /\ tmy_computation_description # "KeyError"
               /\ tmy_computation_description
                     = <<amy_type, computation_method>>)
    /\ [][(panel = "amy" /\ amy_type' # amy_type)
            => computation_method'
                  = tmy_advanced_options_dict[amy_type'].default]_vars

C22_Witness ==
    /\ panel = "amy" /\ op = "set_amy_type"
    /\ amy_type = "Difference"
    /\ computation_method = "Warming Level Future"
    /\ tmy_computation_description = <<"Difference", "Warming Level Future">>

\* C23: in every reachable state of the AMY panel, cmap is ae_diverging
\* when amy_type is "Difference", and the colormap the variable-description
\* table gives the current variable (hourly) when amy_type is "Absolute".
C23_CmapFollowsTypeAndVariable ==
    panel = "amy"
        => /\ amy_type = "Difference" => cmap = "ae_diverging"
           /\ amy_type = "Absolute" => cmap = VariableColormap[variable]

C23_Witness ==
    /\ panel = "amy" /\ op = "set_amy_type"
    /\ amy_type = "Difference"
    /\ variable = "Precipitation (total)"
    /\ cmap = "ae_diverging"


C28_ReloadPlotOnlyRenders ==
    [][panel = "visualize"
        => /\ op' = "reload_plot"
                => /\ calls' = NoCalls
                   /\ UNCHANGED <<da, threshold_value, changed_loc_and_var,
                                  changed_units>>
                   /\ view_result' \in {view(stage) : stage \in ViewStages}
           /\ op' \in {"set_threshold_value", "set_param"}
                => view_result' = view_result]_vars

\* the plot is reloaded after the user changed options and the threshold,
\* with the constructor's dataset still to be refreshed
C28_Witness ==
    /\ panel = "visualize"
    /\ op = "reload_plot"
    /\ view_result = "column"
    /\ threshold_direction = "below"
    /\ smoothing = "Running mean"
    /\ duration1_length = 2
    /\ threshold_value = 0
    /\ changed_loc_and_var
    /\ calls = NoCalls


\* C26 as stated: in the thresholds panel a change of any location or
\* variable field the panel exposes (area_subset, cached_area, latitude,
\* longitude, variable) marks changed_loc_and_var, so that the next
\* reload_data retrieves again.
C26_LocationChangeMarksFlag ==
    [][(/\ panel = "visualize"
        /\ <<area_subset, cached_area, latitude, longitude, variable>>'
              # <<area_subset, cached_area, latitude, longitude, variable>>)
        => changed_loc_and_var']_vars


\* C29 as stated: after compute_stamps, whatever value of the warmlevel
\* selector (1.5, 2, 3 or 4) the user picks, main_stamps and stats_stamps
\* have an entry under str(float(warmlevel)).
C29_EverySelectableLevelHasStamps ==
    (panel = "warming" /\ op = "set_warmlevel") => raised = "none"

\* C30: after compute_stamps, main_stamps and stats_stamps have the entries
\* of warming_levels as their keys, and for each level the MAIN entry is the
\* "No simulations reach this warming level" message exactly when the STATS
\* entry is, which is exactly when every simulation is null at that level.
C30_SameKeysSameMessage ==
    (panel = "warming" /\ op = "compute_stamps")
        => /\ DOMAIN main_stamps = LevelSet(warming_levels)
           /\ DOMAIN stats_stamps = LevelSet(warming_levels)
           /\ \A l \in LevelSet(warming_levels) :
                 /\ main_stamps[l] = NoSimulations
                        <=> stats_stamps[l] = NoSimulations
                 /\ main_stamps[l] = NoSimulations
                        <=> \A i \in DOMAIN gwl_snapshots[l] :
                                ~gwl_snapshots[l][i]

\* no simulation reaches 2.0 and exactly one reaches 1.5
C30_Witness ==
    /\ panel = "warming" /\ op = "compute_stamps"
    /\ warming_levels = <<"1.5", "2.0">>
    /\ gwl_snapshots["2.0"] = <<FALSE, FALSE>>
    /\ gwl_snapshots["1.5"] = <<FALSE, TRUE>>
    /\ main_stamps["2.0"] = NoSimulations
    /\ stats_stamps["2.0"] = NoSimulations
    /\ main_stamps["1.5"] # NoSimulations
    /\ stats_stamps["1.5"] # NoSimulations

\* C21: compute_stamps leaves wl_viz.gwl_snapshots as it was, whatever
\* simulations are dropped or renamed for the stamps.
C21_SnapshotsUntouched ==
    [][(panel = "warming" /\ op' = "compute_stamps")
        => gwl_snapshots' = gwl_snapshots]_vars

\* stamps computed from snapshots in which one simulation never reaches 2.0
\* while the others do
C21_Witness ==
    /\ panel = "warming" /\ op = "compute_stamps"
    /\ warming_levels = <<"2.0">>
    /\ gwl_snapshots["2.0"] = <<TRUE, FALSE, TRUE>>
    /\ Len(main_stamps["2.0"].simulations) = 2
    /\ stats_stamps["2.0"].simulations = <<"Minimum", "Maximum", "Median">>


\* C24 as stated: for a frame of 365 or 366 rows every tick of
\* meteo_yr_heatmap is at the row of the first day of its month for that
\* year length, so at one of the rows meteo_yr_heatmap_static uses for the
\* same length, and these rows are 31, 91, 152, 213, 274, 335 for 366 rows
\* and 31, 90, 151, 212, 273, 334 for 365.
C24_TicksOnFirstDays ==
    (panel = "heatmap" /\ op = "meteo_yr_heatmap" /\ raised = "none")
        => LET days == first_days_of_month(meteo_yr_len)
           IN  /\ \A i \in DOMAIN yticks :
                     \E j \in DOMAIN days : yticks[i][1] = days[j]
               /\ [i \in DOMAIN yticks |-> yticks[i][1]] =
                     IF meteo_yr_len = 366
                     THEN <<31, 91, 152, 213, 274, 335>>
                     ELSE <<31, 90, 151, 212, 273, 334>>

====
